---- MODULE Spec2Model ----
(***************************************************************************)
(* A model of the Discord crypto price bot:                                *)
(*   - PriceQuoteCache (src/src/discord_price/quote.py): TTL cache, rate    *)
(*     limiter and upstream call;                                           *)
(*   - VoiceChannelUpdater (src/src/discord_price/updaters.py): the full    *)
(*     reconciliation pass, the incremental add and remove, the update      *)
(*     loop;                                                                *)
(*   - the voice commands of CommandHandler                                 *)
(*     (src/src/discord_price/commands.py) that drive them.                 *)
(*                                                                          *)
(* Ten specifications share the module.  SpecCache runs one                  *)
(* PriceQuoteCache instance against a clock.  Spec runs one guild from the  *)
(* day the bot joins it: the commands, the scheduled tick and the passes    *)
(* they start, each handler run to completion.  SpecRun runs one handler    *)
(* from any category and any configuration, and keeps the whole run in its  *)
(* history.  SpecHeal runs two full passes in succession, a user editing    *)
(* one channel in between.  SpecOverlap runs the scheduled pass and one     *)
(* command at once, interleaved at their awaits.  SpecKey runs the cache    *)
(* with symbol lists that differ in order and in case.  SpecLoop runs one   *)
(* update loop: boundary_timer, the passes of the guilds, the client        *)
(* closing and opening.  SpecFormat calls format_price under its lru cache. *)
(* SpecLimiter runs two tasks through _rate_limit of one instance.          *)
(* SpecQuoter runs the handlers that construct a PriceQuoteCache from the   *)
(* construction to the finally clause.                                      *)
(*                                                                          *)
(* Time is counted in whole seconds.  A channel name is the sequence of its *)
(* space-separated tokens, so that                                          *)
(* name.split(' ')[0] is Head(name).  The category is the list              *)
(* category.voice_channels, ordered by position; a channel's position is    *)
(* its index in that list, counted from 0 (the dense positions of           *)
(* spec.md section 3), and a position edit takes effect at once.            *)
(***************************************************************************)
EXTENDS Integers, Sequences, FiniteSets, TLC

VARIABLES
    \* ---- one PriceQuoteCache instance (SpecCache)
    cache,              \* self.cache: the dict, as the list of its items in insertion order
    last_request_time,  \* self.last_request_time
    session,            \* self.session: "none", "open" or "closed"
    clock,              \* time.time(), in seconds
    requested,          \* history: whether a request has been issued to the upstream
    call,               \* history: the step just taken on the cache and what it returned
    \* ---- one guild (Spec)
    update_category,    \* guild_config.update_category: 0 is None
    voice_tickers,      \* guild_config.voice_tickers
    container,          \* category.voice_channels of the update category
    loop_state,         \* the task running VoiceChannelUpdater.update_loop
    ran,                \* history: the last handler that ran and the operations it issued
    \* ---- two handlers of the guild running at once (SpecOverlap)
    tasks,              \* the coroutine of each handler: where it awaits, and its locals
    gone,               \* the channels deleted: id, and the name and position they had
    \* ---- one update loop (SpecLoop)
    client_closed,      \* self.client.is_closed()
    timer,              \* the coroutine of update_loop: where it awaits, the locals of boundary_timer
    ticks,              \* history: when the loop started, when the callback was invoked, the passes running
    \* ---- format_price (SpecFormat)
    lru,                \* the lru_cache of format_price: its (price, result) pairs, the latest used last
    formatted,          \* history: the last price formatted and what the two functions returned
    \* ---- two tasks calling one PriceQuoteCache instance (SpecLimiter)
    callers,            \* the coroutine of each task: where it is in _rate_limit, its locals
    issue_times,        \* history: the times at which _rate_limit returned, in order
    \* ---- the handlers that construct a PriceQuoteCache (SpecQuoter)
    guild_quoter        \* the handler holding guild_quoter: where it is, how it leaves

vars == <<cache, last_request_time, session, clock, requested, call,
          update_category, voice_tickers, container, loop_state, ran, tasks, gone,
          client_closed, timer, ticks, lru, formatted, callers, issue_times,
          guild_quoter>>

cacheVars == <<cache, last_request_time, session, clock, requested, call>>
guildVars == <<update_category, voice_tickers, container, loop_state, ran>>
overlapVars == <<tasks, gone>>
loopVars == <<client_closed, timer, ticks>>
formatVars == <<lru, formatted>>
limiterVars == <<callers, issue_times>>
quoterVars == <<guild_quoter>>

\* A handler not started: where its coroutine is, the handler, the ticker it
\* was given, the tickers it asked the upstream for, and the locals
\* sorted_quotes, existing_channels, the index i of the loop over the quotes
\* (target_position in the incremental add), the index k of the loop over
\* existing_channels, and new_channel.
NoTask ==
    [pc |-> "idle", op |-> "none", ticker |-> "", asked |-> <<>>, sorted_quotes |-> <<>>,
     existing |-> <<>>, i |-> 0, k |-> 0, new_id |-> 0]

\* The update loop and the command a user gives while the loop's pass runs
NoTasks == [who \in {"loop", "command"} |-> NoTask]

\* No update loop: where the coroutine is, the cadence it was given, the
\* locals now and next_boundary of boundary_timer, the time its sleep ends,
\* and the place in config.guilds of the guild whose pass it awaits.
NoTimer ==
    [pc |-> "none", cadence |-> 0, now |-> 0, next_boundary |-> 0, wake |-> 0, guild |-> 0]

NoTicks ==
    [started |-> 0, invoked |-> <<>>, rechecks |-> 0, running |-> {}, closed_seen |-> FALSE]

\* Nothing formatted yet
NoFormat == [price |-> 0, out |-> "", voice |-> "", hit |-> FALSE]

\* A task outside _rate_limit: where its coroutine is, and the time its
\* sleep ends
NoCaller == [pc |-> "out", wake |-> 0]

\* No handler holds a PriceQuoteCache: where the handler is, which handler,
\* the fetches it has awaited, whether the last one returned quotes, and how
\* the last handler to end left its try block
NoQuoter == [pc |-> "none", op |-> "none", fetches |-> 0, quotes |-> "none", exit |-> "none"]

-----------------------------------------------------------------------------
(* Bounds of the model *)

CacheTtl == 2        \* the cache_ttl the instance is constructed with, in seconds
MaxCacheSize == 1    \* the max_cache_size the instance is constructed with
StartClock == 10     \* the time at which the model starts
MaxCap == 2
MaxChannels == 2     \* the channels the category of Spec may hold
MaxInitial == 2      \* the channels of a category drawn by SpecRun
MaxReject == 2       \* the last place in a run at which Discord may reject an operation
MaxCadence == 2      \* SpecLoop: the cadences 1..MaxCadence, besides those of the two loops
MaxStart == 2        \* SpecLoop: the loop starts at a time in 0..MaxStart
MaxPass == 2         \* SpecLoop: the pass of a guild takes 0..MaxPass seconds
NumGuilds == 2       \* SpecLoop: the guilds in config.guilds
MaxTicks == 2        \* SpecLoop: the invocations of the callback in a run
MaxRechecks == 2     \* SpecLoop: the times the loop finds the client closed in a run
MaxFormatCalls == 2  \* SpecFormat: the distinct prices format_price is called with in a run
NumCallers == 2      \* SpecLimiter: the tasks that call into the instance
MaxIssued == 4       \* SpecLimiter: the passes through _rate_limit in a run
MaxFetches == 2      \* SpecQuoter: the fetches of a message pass

(* Program constants, in seconds *)
MinRequestInterval == 1
RateLimitCooldown == 60
Backoff == 180
VoiceCadence == 3600
MessageCadence == 1800
LruMaxSize == 128
TickHorizon == StartClock + CacheTtl + 1
MaxClock == TickHorizon + RateLimitCooldown + MinRequestInterval

\* The window of time the model explores: the clock runs from StartClock to
\* TickHorizon; one cooldown may carry it beyond, and MaxClock ends the run.
InWindow(now, done) ==
    \/ done <= TickHorizon
    \/ now <= TickHorizon /\ done - now >= RateLimitCooldown
    \/ now > TickHorizon /\ done <= MaxClock

-----------------------------------------------------------------------------
(* Generic helpers on sequences *)

Range(s) == {s[i] : i \in DOMAIN s}

SeqWithout(s, i) == [j \in 1..(Len(s) - 1) |-> IF j < i THEN s[j] ELSE s[j + 1]]

SeqInsertAt(s, i, e) ==
    [j \in 1..(Len(s) + 1) |-> IF j < i THEN s[j] ELSE IF j = i THEN e ELSE s[j - 1]]

NoDup(s) == \A i, j \in DOMAIN s : i # j => s[i] # s[j]

-----------------------------------------------------------------------------
(* Symbols and quotes *)

Symbols == {"BTC", "ETH", "SOL"}

\* Python's order of str, restricted to the symbols of the model and to the
\* lower-case spellings a caller may give: upper case sorts before lower case
SymRank(s) ==
    CASE s = "BTC" -> 1
      [] s = "ETH" -> 2
      [] s = "SOL" -> 3
      [] s = "btc" -> 4
      [] s = "eth" -> 5
      [] OTHER -> 6

\* sorted(symbols): insertion of each element after the elements not greater than it
RECURSIVE SortedInsert(_, _)
SortedInsert(sorted, s) ==
    IF sorted = <<>> THEN <<s>>
    ELSE IF SymRank(s) < SymRank(Head(sorted)) THEN <<s>> \o sorted
    ELSE <<Head(sorted)>> \o SortedInsert(Tail(sorted), s)

RECURSIVE SortedSymbols(_)
SortedSymbols(symbols) ==
    IF symbols = <<>> THEN <<>>
    ELSE SortedInsert(SortedSymbols(SeqWithout(symbols, Len(symbols))), symbols[Len(symbols)])

RECURSIVE Join(_)
Join(parts) ==
    IF parts = <<>> THEN ""
    ELSE IF Len(parts) = 1 THEN parts[1]
    ELSE parts[1] \o "," \o Join(Tail(parts))

\* Prices are counted in millionths of a dollar.
PriceUnit == 1000000

\* The market the upstream reports: a market cap per symbol and a variant
\* v of the prices (the price and the sign of the 1h change).
Markets == [cap : [Symbols -> 1..MaxCap], v : {1, 2}]

PriceOf(v) == IF v = 1 THEN 500000 ELSE 1500 * PriceUnit

QuoteOf(sym, m) ==
    [symbol |-> sym,
     price_usd |-> PriceOf(m.v),
     percent_change_1h |-> IF m.v = 1 THEN 1 ELSE -1,
     market_cap |-> m.cap[sym]]

-----------------------------------------------------------------------------
(* The upstream and PriceQuoteCache._fetch_from_api *)

\* The items of a well-formed body: a quote for every requested symbol the
\* upstream resolves, in request order.
RECURSIVE BodyItems(_, _, _)
BodyItems(symbols, resolved, m) ==
    IF symbols = <<>> THEN <<>>
    ELSE (IF Head(symbols) \in resolved THEN <<QuoteOf(Head(symbols), m)>> ELSE <<>>)
         \o BodyItems(Tail(symbols), resolved, m)

\* What the upstream may answer to one request.
\*   ok          status 200, a body of the expected shape
\*   no_data     status 200, a JSON object without 'data'
\*   non_numeric status 200, a price or market cap that float() rejects
\*   not_json    status 200, a body response.json() rejects
\*   throttled   status 429
\*   http_error  another status
\*   transport   aiohttp.ClientError
FailureKinds == {"non_numeric", "not_json", "throttled", "http_error", "transport"}

Outcomes(symbols, resolvable, markets) ==
    {[kind |-> "ok", items |-> BodyItems(symbols, r, m)] : r \in resolvable, m \in markets}
    \cup {[kind |-> k, items |-> <<>>] : k \in FailureKinds \cup {"no_data"}}

\* _parse_api_response: data.get('data', {}) makes a body without 'data' an
\* empty result; a float() that fails raises.
ParseApiResponse(outcome) ==
    CASE outcome.kind = "ok" -> [raised |-> FALSE, quotes |-> outcome.items]
      [] outcome.kind = "no_data" -> [raised |-> FALSE, quotes |-> <<>>]
      [] OTHER -> [raised |-> TRUE, quotes |-> <<>>]

\* A limiter that never sleeps.
RateLimitDelayNever(now, last) == 0

\* _rate_limit: the time to sleep before the request is issued
RateLimitDelay(now, last) ==
    IF now - last < MinRequestInterval THEN MinRequestInterval - (now - last) ELSE 0

\* A _fetch_from_api that raises at once on a 429.
FetchFromApiNoCooldown(now, last, outcome) ==
    LET delay == RateLimitDelay(now, last)
        parsed == IF outcome.kind \in {"ok", "no_data", "non_numeric"}
                  THEN ParseApiResponse(outcome)
                  ELSE [raised |-> TRUE, quotes |-> <<>>]
    IN  [raised |-> parsed.raised, quotes |-> parsed.quotes, slept |-> delay,
         issued |-> now + delay, done |-> now + delay]

\* A _fetch_from_api whose limiter records the time only when it slept.
FetchFromApiRecordsAfterSleep(now, last, outcome) ==
    LET delay == RateLimitDelay(now, last)
        issue == now + delay
        parsed == IF outcome.kind \in {"ok", "no_data", "non_numeric"}
                  THEN ParseApiResponse(outcome)
                  ELSE [raised |-> TRUE, quotes |-> <<>>]
    IN  [raised |-> parsed.raised,
         quotes |-> parsed.quotes,
         slept |-> delay,
         issued |-> IF delay > 0 THEN issue ELSE last,
         done |-> issue + (IF outcome.kind = "throttled" THEN RateLimitCooldown ELSE 0)]

\* _fetch_from_api, called at time now: the result, the time it takes (the
\* sleep of the rate limiter, the cooldown after a 429; the request itself
\* is instantaneous), and the time written to last_request_time.
FetchFromApi(now, last, outcome) ==
    LET delay == RateLimitDelay(now, last)
        issue == now + delay
        parsed == IF outcome.kind \in {"ok", "no_data", "non_numeric"}
                  THEN ParseApiResponse(outcome)
                  ELSE [raised |-> TRUE, quotes |-> <<>>]
    IN  [raised |-> parsed.raised,
         quotes |-> parsed.quotes,
         slept |-> delay,
         issued |-> issue,
         done |-> issue + (IF outcome.kind = "throttled" THEN RateLimitCooldown ELSE 0)]

-----------------------------------------------------------------------------
(* PriceQuoteCache: the cache *)

GenerateCacheKey(symbols) == Join(SortedSymbols(symbols))

IsCacheValid(entry, current_time) == (current_time - entry.timestamp) < CacheTtl

CacheKeys(c) == {c[i].key : i \in DOMAIN c}

CacheEntry(c, key) == c[CHOOSE i \in DOMAIN c : c[i].key = key]

RECURSIVE DropExpired(_, _)
DropExpired(c, now) ==
    IF c = <<>> THEN <<>>
    ELSE (IF IsCacheValid(Head(c), now) THEN <<Head(c)>> ELSE <<>>)
         \o DropExpired(Tail(c), now)

\* The index of the first entry with the smallest timestamp: the head of
\* sorted(self.cache.items(), key=timestamp), which is stable.
OldestIdx(c) ==
    CHOOSE i \in DOMAIN c :
        /\ \A j \in DOMAIN c : c[i].timestamp <= c[j].timestamp
        /\ \A j \in 1..(i - 1) : c[j].timestamp > c[i].timestamp

RECURSIVE DropOldest(_, _)
DropOldest(c, n) ==
    IF n <= 0 \/ c = <<>> THEN c ELSE DropOldest(SeqWithout(c, OldestIdx(c)), n - 1)

\* A cleanup that removes the expired entries and no other.
CleanupCacheExpiredOnly(c, now) == DropExpired(c, now)

\* _cleanup_cache at wall-clock time now
CleanupCache(c, now) ==
    LET live == DropExpired(c, now)
    IN  IF Len(live) > MaxCacheSize THEN DropOldest(live, Len(live) - MaxCacheSize)
        ELSE live

\* self.cache[key] = entry: a dict keeps the place of a key it already holds
CacheStore(c, entry) ==
    IF entry.key \in CacheKeys(c)
    THEN [i \in DOMAIN c |-> IF c[i].key = entry.key THEN entry ELSE c[i]]
    ELSE Append(c, entry)

\* An except clause that raises again.
FetchOnErrorReraise(cleaned, key) == [raised |-> TRUE, value |-> <<>>]

\* The except clause of fetch: the entry the cache still holds for the key,
\* or the empty list; the exception goes no further.
FetchOnError(cleaned, key) ==
    [raised |-> FALSE,
     value |-> IF key \in CacheKeys(cleaned) THEN CacheEntry(cleaned, key).data ELSE <<>>]

\* A fetch whose hit gives the entry the time of the access.
FetchRefreshingHit(c, last, symbols, current_time, now, outcome) ==
    LET cleaned == CleanupCache(c, now)
        key == GenerateCacheKey(symbols)
        api == FetchFromApi(now, last, outcome)
    IN  IF symbols = <<>>
        THEN [raised |-> FALSE, value |-> <<>>, cache |-> c, last |-> last,
              done |-> now, upstream |-> FALSE, failed |-> FALSE, slept |-> 0]
        ELSE IF key \in CacheKeys(cleaned) /\ IsCacheValid(CacheEntry(cleaned, key), current_time)
        THEN [raised |-> FALSE, value |-> CacheEntry(cleaned, key).data,
              cache |-> CacheStore(cleaned, [CacheEntry(cleaned, key)
                                             EXCEPT !.timestamp = current_time]),
              last |-> last, done |-> now, upstream |-> FALSE, failed |-> FALSE, slept |-> 0]
        ELSE IF ~api.raised
        THEN [raised |-> FALSE, value |-> api.quotes,
              cache |-> CacheStore(cleaned, [key |-> key, data |-> api.quotes,
                                             timestamp |-> current_time]),
              last |-> api.issued, done |-> api.done, upstream |-> TRUE, failed |-> FALSE,
              slept |-> api.slept]
        ELSE [raised |-> FetchOnError(cleaned, key).raised,
              value |-> FetchOnError(cleaned, key).value,
              cache |-> cleaned, last |-> api.issued, done |-> api.done,
              upstream |-> TRUE, failed |-> TRUE, slept |-> api.slept]

\* fetch(symbols, current_time), called at wall-clock time now on a cache c
\* whose limiter last issued at last, the upstream answering outcome.
Fetch(c, last, symbols, current_time, now, outcome) ==
    LET cleaned == CleanupCache(c, now)
        key == GenerateCacheKey(symbols)
        api == FetchFromApi(now, last, outcome)
    IN  IF symbols = <<>>
        THEN [raised |-> FALSE, value |-> <<>>, cache |-> c, last |-> last,
              done |-> now, upstream |-> FALSE, failed |-> FALSE, slept |-> 0]
        ELSE IF key \in CacheKeys(cleaned) /\ IsCacheValid(CacheEntry(cleaned, key), current_time)
        THEN [raised |-> FALSE, value |-> CacheEntry(cleaned, key).data, cache |-> cleaned,
              last |-> last, done |-> now, upstream |-> FALSE, failed |-> FALSE, slept |-> 0]
        ELSE IF ~api.raised
        THEN [raised |-> FALSE, value |-> api.quotes,
              cache |-> CacheStore(cleaned, [key |-> key, data |-> api.quotes,
                                             timestamp |-> current_time]),
              last |-> api.issued, done |-> api.done, upstream |-> TRUE, failed |-> FALSE,
              slept |-> api.slept]
        ELSE [raised |-> FetchOnError(cleaned, key).raised,
              value |-> FetchOnError(cleaned, key).value,
              cache |-> cleaned, last |-> api.issued, done |-> api.done,
              upstream |-> TRUE, failed |-> TRUE, slept |-> api.slept]

\* A fetch_no_cache that goes through the cache as fetch does.
FetchNoCacheThroughCache(c, last, symbols, now, outcome) ==
    Fetch(c, last, symbols, now, now, outcome)

\* A fetch_no_cache that asks the upstream for the empty list too.
FetchNoCacheAlwaysAsks(c, last, symbols, now, outcome) ==
    LET api == FetchFromApi(now, last, outcome)
    IN  [raised |-> api.raised, value |-> api.quotes, cache |-> c,
         last |-> api.issued, done |-> api.done, upstream |-> TRUE,
         failed |-> api.raised, slept |-> api.slept]

\* fetch_no_cache(symbols), called at time now
FetchNoCache(c, last, symbols, now, outcome) ==
    LET api == FetchFromApi(now, last, outcome)
    IN  IF symbols = <<>>
        THEN [raised |-> FALSE, value |-> <<>>, cache |-> c, last |-> last,
              done |-> now, upstream |-> FALSE, failed |-> FALSE, slept |-> 0]
        ELSE [raised |-> api.raised, value |-> api.quotes, cache |-> c,
              last |-> api.issued, done |-> api.done, upstream |-> TRUE,
              failed |-> api.raised, slept |-> api.slept]


-----------------------------------------------------------------------------
(* SpecCache: one PriceQuoteCache instance, its callers and the clock *)

SymbolLists == {<<>>, <<"BTC">>, <<"ETH">>, <<"BTC", "ETH">>, <<"ETH", "BTC">>}

\* In SpecCache the market caps do not matter: only the price variant changes.
CacheMarkets == {m \in Markets : \A sym \in Symbols : m.cap[sym] = 1}

\* The outcome as the history keeps it: the failures that differ in nothing
\* the cache does are kept as one.
KindKept(outcome) ==
    IF outcome.kind \in {"not_json", "http_error", "transport"} THEN "error"
    ELSE outcome.kind

NoCacheLists == {<<>>, <<"BTC">>, <<"BTC", "ETH">>}

\* What the upstream may answer in SpecCache: every requested symbol or none.
CacheOutcomes(symbols) == Outcomes(symbols, {Range(symbols), {}}, CacheMarkets)

NoCall ==
    [op |-> "none", key |-> "", kind |-> "none", raised |-> FALSE, value |-> <<>>,
     waited |-> FALSE, evicted |-> 0]

\* What the history keeps of a call: the operation, the cache key of its
\* symbols, the upstream's answer when one was asked for ("none" when no
\* request was made), what the call returned or that it raised, and whether
\* the rate limiter made it sleep, and how many unexpired entries the cleanup
\* of the call removed.
CallRecord(op, symbols, outcome, r) ==
    [op |-> op,
     key |-> GenerateCacheKey(symbols),
     kind |-> IF r.upstream THEN KindKept(outcome) ELSE "none",
     raised |-> r.raised,
     value |-> r.value,
     waited |-> r.upstream /\ r.slept > 0,
     evicted |-> IF op = "fetch" /\ symbols # <<>>
                 THEN Len(DropExpired(cache, clock)) - Len(CleanupCache(cache, clock))
                 ELSE 0]

\* A new PriceQuoteCache, and a guild nothing happens to.
InitCache ==
    /\ cache = <<>>
    /\ last_request_time = 0
    /\ session = "none"
    /\ clock = StartClock
    /\ requested = FALSE
    /\ call = NoCall
    /\ update_category = 0
    /\ voice_tickers = <<>>
    /\ container = <<>>
    /\ loop_state = "waiting"
    /\ ran = [op |-> "none", ticker |-> "", quotes |-> <<>>, ops |-> <<>>, outcome |-> "none"]
    /\ tasks = NoTasks
    /\ gone = {}
    /\ client_closed = FALSE
    /\ timer = NoTimer
    /\ ticks = NoTicks
    /\ lru = <<>>
    /\ formatted = NoFormat
    /\ callers = <<>>
    /\ issue_times = <<>>
    /\ guild_quoter = NoQuoter

\* A caller awaits fetch(symbols, time.time()) and the upstream, when asked,
\* answers outcome.
FetchStep(symbols, outcome) ==
    \E r \in {Fetch(cache, last_request_time, symbols, clock, clock, outcome)} :
        /\ InWindow(clock, r.done)
        /\ cache' = r.cache
        /\ last_request_time' = r.last
        /\ clock' = r.done
        /\ session' = IF r.upstream THEN "open" ELSE session
        /\ requested' = (requested \/ r.upstream)
        /\ call' = CallRecord("fetch", symbols, outcome, r)
        /\ UNCHANGED <<guildVars, overlapVars, loopVars, formatVars, limiterVars, quoterVars>>

CacheFetch ==
    \E symbols \in SymbolLists :
      \E outcome \in CacheOutcomes(symbols) :
        FetchStep(symbols, outcome)

\* A caller awaits fetch_no_cache(symbols).
FetchNoCacheStep(symbols, outcome) ==
    \E r \in {FetchNoCache(cache, last_request_time, symbols, clock, outcome)} :
        /\ InWindow(clock, r.done)
        /\ cache' = r.cache
        /\ last_request_time' = r.last
        /\ clock' = r.done
        /\ session' = IF r.upstream THEN "open" ELSE session
        /\ requested' = (requested \/ r.upstream)
        /\ call' = CallRecord("fetch_no_cache", symbols, outcome, r)
        /\ UNCHANGED <<guildVars, overlapVars, loopVars, formatVars, limiterVars, quoterVars>>

CacheFetchNoCache ==
    \E symbols \in NoCacheLists :
      \E outcome \in CacheOutcomes(symbols) :
        FetchNoCacheStep(symbols, outcome)

\* A close that leaves the cache as it is.
CacheCloseKeepsCache ==
    /\ session' = IF session = "open" THEN "closed" ELSE session
    /\ call' = [NoCall EXCEPT !.op = "close"]
    /\ UNCHANGED <<cache, last_request_time, clock, requested>>
    /\ UNCHANGED <<guildVars, overlapVars, loopVars, formatVars, limiterVars, quoterVars>>

\* close(): the session is closed when one is open, the cache is cleared.
CacheClose ==
    /\ session' = IF session = "open" THEN "closed" ELSE session
    /\ cache' = <<>>
    /\ call' = [NoCall EXCEPT !.op = "close"]
    /\ UNCHANGED <<last_request_time, clock, requested>>
    /\ UNCHANGED <<guildVars, overlapVars, loopVars, formatVars, limiterVars, quoterVars>>

\* Time passes between two calls.
Tick ==
    \E d \in {1, CacheTtl - 1} :
        /\ clock + d <= TickHorizon
        /\ clock' = clock + d
        /\ call' = [NoCall EXCEPT !.op = "tick"]
        /\ UNCHANGED <<cache, last_request_time, session, requested>>
        /\ UNCHANGED <<guildVars, overlapVars, loopVars, formatVars, limiterVars, quoterVars>>

NextCache == CacheFetch \/ CacheFetchNoCache \/ CacheClose \/ Tick

SpecCache == InitCache /\ [][NextCache]_vars


-----------------------------------------------------------------------------
(* SpecKey: one PriceQuoteCache instance whose callers spell the same       *)
(* symbols in different orders and cases.  The upstream takes a symbol in   *)
(* either case and answers with the symbol in upper case.                   *)

KeyLists == {<<"BTC">>, <<"btc">>, <<"BTC", "ETH">>, <<"ETH", "BTC">>, <<"eth", "BTC">>}

\* The symbol as the upstream spells it
Upper(s) ==
    CASE s = "btc" -> "BTC"
      [] s = "eth" -> "ETH"
      [] OTHER -> s

UpperAll(symbols) == [i \in DOMAIN symbols |-> Upper(symbols[i])]

KeyOutcomes(symbols) == CacheOutcomes(UpperAll(symbols))

KeyFetch ==
    \E symbols \in KeyLists :
      \E outcome \in KeyOutcomes(symbols) :
        FetchStep(symbols, outcome)

NextKey == KeyFetch \/ Tick

SpecKey == InitCache /\ [][NextKey]_vars

-----------------------------------------------------------------------------
(* VoiceChannelUpdater: the label of a ticker channel *)

\* default_styles, the icons written as words
default_styles == [price_up_icon |-> "up", price_down_icon |-> "down"]

RECURSIVE Pow10(_)
Pow10(k) == IF k = 0 THEN 1 ELSE 10 * Pow10(k - 1)

\* n in decimal, padded with zeros on the left to width digits
RECURSIVE ZeroPadded(_, _)
ZeroPadded(str, width) == IF Len(str) >= width THEN str ELSE ZeroPadded("0" \o str, width)

\* n / d rounded to the nearest integer, a tie to the even one
RoundDiv(n, d) ==
    LET q == n \div d
        r == n % d
    IN  IF 2 * r > d \/ (2 * r = d /\ q % 2 = 1) THEN q + 1 ELSE q

\* f"{price:.{decimals}f}" of a price counted in millionths
FixedPoint(price, decimals) ==
    LET scaled == RoundDiv(price, Pow10(6 - decimals))
        whole == scaled \div Pow10(decimals)
        frac == scaled % Pow10(decimals)
    IN  ToString(whole) \o
        (IF decimals = 0 THEN "" ELSE "." \o ZeroPadded(ToString(frac), decimals))

\* _format_price
FormatPrice(price) ==
    IF price < PriceUnit \div 100 THEN "$" \o FixedPoint(price, 6)
    ELSE IF price < PriceUnit THEN "$" \o FixedPoint(price, 4)
    ELSE IF price < 1000 * PriceUnit THEN "$" \o FixedPoint(price, 2)
    ELSE "$" \o FixedPoint(price, 0)

\* _create_channel_name: the tokens of f"{symbol} {emoji} {price_str}"
CreateChannelName(quote) ==
    <<quote.symbol,
      IF quote.percent_change_1h >= 0 THEN default_styles.price_up_icon
      ELSE default_styles.price_down_icon,
      FormatPrice(quote.price_usd)>>

\* channel.name.split(' ')[0]
KeyOf(name) == Head(name)

-----------------------------------------------------------------------------
(* The category and the operations Discord carries out on it.  A handler    *)
(* run works on a record st:                                                *)
(*   cont    the channels of the category, [id, name], in position order    *)
(*   ops     the operations issued so far, in order, rejected one included  *)
(*   raised  whether Discord rejected an operation: the exception ends the  *)
(*           run                                                            *)
(* reject is the place in ops of the operation Discord rejects, 0 for none. *)

ChannelIds(cont) == {cont[i].id : i \in DOMAIN cont}

\* The id Discord gives a new channel: one no channel of the category has.
NewId(cont) == CHOOSE id \in 1..(Len(cont) + 1) :
    id \notin ChannelIds(cont) /\ \A other \in 1..(id - 1) : other \in ChannelIds(cont)

IndexOf(cont, id) == CHOOSE i \in DOMAIN cont : cont[i].id = id

\* channel.position
PositionOf(cont, id) == IndexOf(cont, id) - 1

ChannelById(cont, id) == cont[IndexOf(cont, id)]

\* A channel placed at position: the channels at and after it shift by one.
PlaceAt(cont, channel, position) ==
    IF position >= Len(cont) THEN Append(cont, channel)
    ELSE SeqInsertAt(cont, position + 1, channel)

StartRun(cont) == [cont |-> cont, ops |-> <<>>, raised |-> FALSE]

Rejects(st, reject) == Len(st.ops) + 1 = reject

Issued(st, op, reject) ==
    [st EXCEPT !.ops = Append(@, [op EXCEPT !.ok = ~Rejects(st, reject)]),
               !.raised = Rejects(st, reject)]

NoPosition == -1

\* category.create_voice_channel(name) and
\* category.create_voice_channel(name, position=position)
CreateVoiceChannel(st, name, position, reject) ==
    LET op == [op |-> "create", id |-> NewId(st.cont), name |-> name,
               position |-> position, ok |-> TRUE]
        done == Issued(st, op, reject)
    IN  IF st.raised THEN st
        ELSE IF done.raised THEN done
        ELSE [done EXCEPT !.cont = PlaceAt(@, [id |-> op.id, name |-> name],
                                           IF position = NoPosition THEN Len(@) ELSE position)]

\* channel.edit(name=name)
EditName(st, id, name, reject) ==
    LET op == [op |-> "rename", id |-> id, name |-> name, position |-> NoPosition, ok |-> TRUE]
        done == Issued(st, op, reject)
    IN  IF st.raised THEN st
        ELSE IF done.raised THEN done
        ELSE [done EXCEPT !.cont[IndexOf(st.cont, id)].name = name]

\* channel.edit(position=position)
EditPosition(st, id, position, reject) ==
    LET channel == ChannelById(st.cont, id)
        op == [op |-> "move", id |-> id, name |-> channel.name, position |-> position,
               ok |-> TRUE]
        done == Issued(st, op, reject)
    IN  IF st.raised THEN st
        ELSE IF done.raised THEN done
        ELSE [done EXCEPT !.cont = PlaceAt(SeqWithout(@, IndexOf(@, id)), channel, position)]

\* channel.delete()
DeleteChannel(st, id, reject) ==
    LET channel == ChannelById(st.cont, id)
        op == [op |-> "delete", id |-> id, name |-> channel.name, position |-> NoPosition,
               ok |-> TRUE]
        done == Issued(st, op, reject)
    IN  IF st.raised THEN st
        ELSE IF done.raised THEN done
        ELSE [done EXCEPT !.cont = SeqWithout(@, IndexOf(@, id))]


-----------------------------------------------------------------------------
(* VoiceChannelUpdater: the full pass, the incremental add and remove *)

\* The quotes left in the order of the response.
QuotesAsFetched(quotes) == quotes

\* sorted(quotes, key=lambda x: x.market_cap, reverse=True): the sort is
\* stable, quotes of equal market cap keep their order.
RECURSIVE InsertByMarketCap(_, _)
InsertByMarketCap(sorted, quote) ==
    IF sorted = <<>> THEN <<quote>>
    ELSE IF quote.market_cap > Head(sorted).market_cap THEN <<quote>> \o sorted
    ELSE <<Head(sorted)>> \o InsertByMarketCap(Tail(sorted), quote)

RECURSIVE SortedByMarketCap(_)
SortedByMarketCap(quotes) ==
    IF quotes = <<>> THEN <<>>
    ELSE InsertByMarketCap(SortedByMarketCap(SeqWithout(quotes, Len(quotes))),
                           quotes[Len(quotes)])

\* What a handler gets from PriceQuoteCache(api_key).fetch(tickers, time.time()):
\* the cache is new, so the result is what the upstream gives, or the empty list.
FetchResults(tickers, resolvable, markets) ==
    {Fetch(<<>>, 0, tickers, StartClock, StartClock, outcome).value :
        outcome \in Outcomes(tickers, resolvable, markets)}

\* existing_channels[key] = channel on a dict kept as the list of its items
DictPut(dict, key, id) ==
    IF \E i \in DOMAIN dict : dict[i].key = key
    THEN [i \in DOMAIN dict |-> IF dict[i].key = key THEN [key |-> key, id |-> id] ELSE dict[i]]
    ELSE Append(dict, [key |-> key, id |-> id])

\* The dict existing_channels: every channel of the category under the first
\* token of its name, a later channel replacing an earlier one of the same key.
RECURSIVE ExistingChannels(_)
ExistingChannels(cont) ==
    IF cont = <<>> THEN <<>>
    ELSE DictPut(ExistingChannels(SeqWithout(cont, Len(cont))),
                 KeyOf(cont[Len(cont)].name), cont[Len(cont)].id)

DictKeys(dict) == {dict[i].key : i \in DOMAIN dict}

DictGet(dict, key) == dict[CHOOSE i \in DOMAIN dict : dict[i].key = key].id

\* The body of the loop over sorted_quotes, for the quote at index i
ProcessQuote(st, existing, quote, i, reject) ==
    LET channel_name == CreateChannelName(quote)
    IN  IF quote.symbol \in DictKeys(existing)
        THEN LET id == DictGet(existing, quote.symbol)
                 renamed == IF ChannelById(st.cont, id).name # channel_name
                            THEN EditName(st, id, channel_name, reject)
                            ELSE st
             IN  IF renamed.raised THEN renamed
                 ELSE IF PositionOf(renamed.cont, id) # i
                 THEN EditPosition(renamed, id, i, reject)
                 ELSE renamed
        ELSE CreateVoiceChannel(st, channel_name, i, reject)

\* for i, quote in enumerate(sorted_quotes), from index i on
RECURSIVE ProcessQuotes(_, _, _, _, _)
ProcessQuotes(st, existing, sorted_quotes, i, reject) ==
    IF st.raised \/ i >= Len(sorted_quotes) THEN st
    ELSE ProcessQuotes(ProcessQuote(st, existing, sorted_quotes[i + 1], i, reject),
                       existing, sorted_quotes, i + 1, reject)

\* for ticker, channel in existing_channels.items(), from item k on
RECURSIVE DeleteUnprocessed(_, _, _, _, _)
DeleteUnprocessed(st, existing, processed_tickers, k, reject) ==
    IF st.raised \/ k > Len(existing) THEN st
    ELSE DeleteUnprocessed(
             IF existing[k].key \notin processed_tickers
             THEN DeleteChannel(st, existing[k].id, reject)
             ELSE st,
             existing, processed_tickers, k + 1, reject)

\* What a handler run leaves: the category, the operations issued, and how
\* the run ended: "returned" before any operation, "done", or "raised".
RunResult(st, returned) ==
    [cont |-> st.cont, ops |-> st.ops,
     outcome |-> IF st.raised THEN "raised" ELSE IF returned THEN "returned" ELSE "done"]

\* A full pass that goes on when the fetch returns the empty list.
UpdateVoiceChannelsForGuildOnEmpty(cont, category, tickers, quotes, reject) ==
    LET st == StartRun(cont)
        existing == ExistingChannels(cont)
        sorted_quotes == SortedByMarketCap(quotes)
        processed_tickers == {sorted_quotes[i].symbol : i \in DOMAIN sorted_quotes}
    IN  IF category = 0 \/ tickers = <<>>
        THEN RunResult(st, TRUE)
        ELSE RunResult(DeleteUnprocessed(ProcessQuotes(st, existing, sorted_quotes, 0, reject),
                                         existing, processed_tickers, 1, reject),
                       FALSE)

\* update_voice_channels_for_guild, the fetch answering quotes
UpdateVoiceChannelsForGuild(cont, category, tickers, quotes, reject) ==
    LET st == StartRun(cont)
        existing == ExistingChannels(cont)
        sorted_quotes == SortedByMarketCap(quotes)
        processed_tickers == {sorted_quotes[i].symbol : i \in DOMAIN sorted_quotes}
    IN  IF category = 0 \/ tickers = <<>> \/ quotes = <<>>
        THEN RunResult(st, TRUE)
        ELSE RunResult(DeleteUnprocessed(ProcessQuotes(st, existing, sorted_quotes, 0, reject),
                                         existing, processed_tickers, 1, reject),
                       FALSE)

\* An add that runs the full pass over the category instead.
AddByFullPass(cont, category, tickers, ticker, all_quotes, reject) ==
    UpdateVoiceChannelsForGuild(cont, category, tickers, all_quotes, reject)

\* The places in sorted_quotes, counted from 0, of the quotes of ticker
PlacesOf(sorted_quotes, ticker) ==
    {i - 1 : i \in {j \in DOMAIN sorted_quotes : sorted_quotes[j].symbol = ticker}}

Min(S) == CHOOSE x \in S : \A y \in S : x <= y

\* VoiceChannelUpdater.add_voice_ticker, the fetch answering all_quotes
AddVoiceTicker(cont, category, tickers, ticker, all_quotes, reject) ==
    LET st == StartRun(cont)
        sorted_quotes == SortedByMarketCap(all_quotes)
        places == PlacesOf(sorted_quotes, ticker)
        target_position == Min(places)
        new_quote == sorted_quotes[target_position + 1]
        created == CreateVoiceChannel(st, CreateChannelName(new_quote), NoPosition, reject)
        new_id == NewId(cont)
        existing_channels == SelectSeq(created.cont, LAMBDA ch : ch.id # new_id)
        channels_before == target_position
    IN  IF category = 0 \/ all_quotes = <<>> \/ places = {}
        THEN RunResult(st, TRUE)
        ELSE IF created.raised THEN RunResult(created, FALSE)
        ELSE IF target_position = 0
        THEN RunResult(EditPosition(created, new_id, 0, reject), FALSE)
        ELSE IF channels_before < Len(existing_channels)
        THEN RunResult(EditPosition(created, new_id,
                           PositionOf(created.cont, existing_channels[channels_before].id) + 1,
                           reject), FALSE)
        ELSE RunResult(created, FALSE)

\* A remove that deletes the first channel of the category, whatever its key.
RemoveFirstChannel(cont, category, ticker, reject) ==
    IF category = 0 \/ cont = <<>>
    THEN RunResult(StartRun(cont), TRUE)
    ELSE RunResult(DeleteChannel(StartRun(cont), cont[1].id, reject), FALSE)

\* VoiceChannelUpdater.remove_voice_ticker: the first channel of the category
\* whose key is ticker is deleted.
RemoveVoiceTicker(cont, category, ticker, reject) ==
    LET st == StartRun(cont)
        matching == {i \in DOMAIN cont : KeyOf(cont[i].name) = ticker}
    IN  IF category = 0 \/ matching = {}
        THEN RunResult(st, TRUE)
        ELSE RunResult(DeleteChannel(st, cont[Min(matching)].id, reject), FALSE)

\* _validate_ticker: fetch_no_cache([ticker]) on a new PriceQuoteCache raises,
\* or its result is empty or not.
ValidateTicker(ticker, markets) ==
    {IF r.raised THEN "raised" ELSE IF r.value # <<>> THEN "found" ELSE "not_found" :
        r \in {FetchNoCache(<<>>, 0, <<ticker>>, StartClock, outcome) :
                 outcome \in Outcomes(<<ticker>>, {{ticker}, {}}, markets)}}


-----------------------------------------------------------------------------
(* The handlers of one guild whose API key is set, driven by a user with    *)
(* the management permission, and the update loop.  Each handler runs to    *)
(* completion before the next starts.  A specification gives the handlers   *)
(* its scope:                                                               *)
(*   markets   the markets the upstream may report                          *)
(*   partial   whether the upstream may leave out some of the symbols asked *)
(*   rejects   the places in a run at which Discord may reject an operation *)
(*   channels  the channels the category may hold when a run ends           *)
(*   whole     whether the history keeps the quotes and the operations of   *)
(*             the run, or only the handler and how it ended                *)

NoRun == [op |-> "none", ticker |-> "", quotes |-> <<>>, ops |-> <<>>, outcome |-> "none"]

\* What the history keeps of a handler run: the handler, the ticker it was
\* given, the quotes its fetch returned, the operations it issued in order
\* and how it ended.
RunRecord(op, ticker, quotes, r, scope) ==
    [op |-> op,
     ticker |-> IF scope.whole THEN ticker ELSE "",
     quotes |-> IF scope.whole THEN quotes ELSE <<>>,
     ops |-> IF scope.whole THEN r.ops ELSE <<>>,
     outcome |-> r.outcome]

\* The parts of the tickers asked for that the upstream may resolve
Resolvable(tickers, scope) ==
    IF scope.partial THEN SUBSET Range(tickers) ELSE {Range(tickers), {}}

\* /set_voice_update_category with the id of the category
SetVoiceUpdateCategory ==
    /\ update_category' = 1
    /\ voice_tickers' = <<>>
    /\ ran' = [NoRun EXCEPT !.op = "set_voice_update_category", !.outcome = "done"]
    /\ UNCHANGED <<container, loop_state>>
    /\ UNCHANGED <<cacheVars, overlapVars, loopVars, formatVars, limiterVars, quoterVars>>

\* /add_voice_ticker ticker
AddVoiceTickerCommand(scope) ==
    \E ticker \in Symbols : \E valid \in ValidateTicker(ticker, scope.markets) :
        /\ update_category # 0
        /\ IF valid = "found" /\ ticker \notin Range(voice_tickers)
           THEN \E quotes \in FetchResults(Append(voice_tickers, ticker),
                                           Resolvable(Append(voice_tickers, ticker), scope),
                                           scope.markets),
                   reject \in scope.rejects :
                  \E r \in {AddVoiceTicker(container, update_category,
                                           Append(voice_tickers, ticker), ticker, quotes,
                                           reject)} :
                    /\ Len(r.cont) <= scope.channels
                    /\ voice_tickers' = Append(voice_tickers, ticker)
                    /\ container' = r.cont
                    /\ ran' = RunRecord("add_voice_ticker", ticker, quotes, r, scope)
           ELSE /\ ran' = RunRecord("add_voice_ticker", ticker, <<>>,
                                     [ops |-> <<>>,
                                      outcome |-> IF valid = "raised" THEN "raised"
                                                  ELSE "returned"],
                                     scope)
                /\ UNCHANGED <<voice_tickers, container>>
        /\ UNCHANGED <<update_category, loop_state>>
        /\ UNCHANGED <<cacheVars, overlapVars, loopVars, formatVars, limiterVars, quoterVars>>

\* /remove_voice_ticker ticker
RemoveVoiceTickerCommand(scope) ==
    \E ticker \in Symbols, reject \in scope.rejects :
        /\ ticker \in Range(voice_tickers)
        /\ \E r \in {RemoveVoiceTicker(container, update_category, ticker, reject)} :
            /\ voice_tickers' = SelectSeq(voice_tickers, LAMBDA t : t # ticker)
            /\ container' = r.cont
            /\ ran' = RunRecord("remove_voice_ticker", ticker, <<>>, r, scope)
        /\ UNCHANGED <<update_category, loop_state>>
        /\ UNCHANGED <<cacheVars, overlapVars, loopVars, formatVars, limiterVars, quoterVars>>

\* update_voice_channels_for_guild, started by op, its fetch answering quotes
\* and Discord rejecting the operation at place reject
PassWith(op, quotes, reject, scope) ==
    \E r \in {UpdateVoiceChannelsForGuild(container, update_category, voice_tickers,
                                          quotes, reject)} :
        /\ Len(r.cont) <= scope.channels
        /\ container' = r.cont
        /\ ran' = RunRecord(op, "", quotes, r, scope)
        /\ UNCHANGED <<update_category, voice_tickers>>
        /\ UNCHANGED <<cacheVars, overlapVars, loopVars, formatVars, limiterVars, quoterVars>>

FullPass(op, scope) ==
    \E quotes \in FetchResults(voice_tickers, Resolvable(voice_tickers, scope), scope.markets),
       reject \in scope.rejects :
        PassWith(op, quotes, reject, scope)

\* /force_update_tickers
ForceUpdateTickers(scope) ==
    /\ FullPass("force_update_tickers", scope)
    /\ UNCHANGED loop_state

\* update_loop: the hour boundary is reached and update_all_voice_channels is
\* awaited; an exception it raises ends the task.
UpdateLoop(scope) ==
    /\ loop_state = "waiting"
    /\ FullPass("update_loop", scope)
    /\ loop_state' = IF ran'.outcome = "raised" THEN "dead" ELSE "waiting"

Handlers(scope) ==
    \/ SetVoiceUpdateCategory
    \/ AddVoiceTickerCommand(scope)
    \/ RemoveVoiceTickerCommand(scope)
    \/ ForceUpdateTickers(scope)
    \/ UpdateLoop(scope)

\* The names a channel of the category may have when a model starts: the
\* label of a quote, or a name the bot never writes.
ForeignNames == {<<"Lobby">>}

TickerNames == {CreateChannelName(QuoteOf(sym, m)) : sym \in Symbols, m \in Markets}

\* The categories of n channels, the ids given in position order
CategoriesOf(names, n) ==
    {[i \in 1..n |-> [id |-> i, name |-> f[i]]] : f \in [1..n -> names]}

UniqueKeys(cont) ==
    \A i, j \in DOMAIN cont : i # j => KeyOf(cont[i].name) # KeyOf(cont[j].name)

\* The voice_tickers a guild may hold: no ticker twice
TickerLists ==
    {tickers \in UNION {[1..n -> Symbols] : n \in 0..Cardinality(Symbols)} : NoDup(tickers)}

-----------------------------------------------------------------------------
(* Spec: the guild from the day the bot joins it.  The update category is   *)
(* not set, and the category it will be set to holds nothing, or one        *)
(* channel the users made.  The market has one symbol above the others, and *)
(* the history keeps the handler and how it ended.                          *)

GuildScope ==
    [markets |-> {m \in Markets : \A sym \in Symbols :
                     m.cap[sym] = IF sym = "BTC" THEN MaxCap ELSE 1},
     partial |-> FALSE,
     rejects |-> 0..1,
     channels |-> MaxChannels,
     whole |-> FALSE]

Init ==
    /\ cache = <<>>
    /\ last_request_time = 0
    /\ session = "none"
    /\ clock = StartClock
    /\ requested = FALSE
    /\ call = NoCall
    /\ update_category = 0
    /\ voice_tickers = <<>>
    /\ container \in CategoriesOf(ForeignNames, 0) \cup CategoriesOf(ForeignNames, 1)
    /\ loop_state = "waiting"
    /\ ran = NoRun
    /\ tasks = NoTasks
    /\ gone = {}
    /\ client_closed = FALSE
    /\ timer = NoTimer
    /\ ticks = NoTicks
    /\ lru = <<>>
    /\ formatted = NoFormat
    /\ callers = <<>>
    /\ issue_times = <<>>
    /\ guild_quoter = NoQuoter

Next == Handlers(GuildScope)

Spec == Init /\ [][Next]_vars

-----------------------------------------------------------------------------
(* SpecRun: one handler run, from any category and any configuration.  The  *)
(* users of the guild may create, rename and move channels in the category, *)
(* so a run may find any content in it.  The history keeps the whole run.   *)

RunScope ==
    [markets |-> Markets, partial |-> TRUE, rejects |-> 0..MaxReject,
     channels |-> MaxInitial + Cardinality(Symbols), whole |-> TRUE]

InitRun ==
    /\ cache = <<>>
    /\ last_request_time = 0
    /\ session = "none"
    /\ clock = StartClock
    /\ requested = FALSE
    /\ call = NoCall
    /\ update_category = 1
    /\ voice_tickers \in TickerLists
    /\ container \in UNION {CategoriesOf(ForeignNames \cup TickerNames, n) : n \in 0..MaxInitial}
    /\ loop_state = "waiting"
    /\ ran = NoRun
    /\ tasks = NoTasks
    /\ gone = {}
    /\ client_closed = FALSE
    /\ timer = NoTimer
    /\ ticks = NoTicks
    /\ lru = <<>>
    /\ formatted = NoFormat
    /\ callers = <<>>
    /\ issue_times = <<>>
    /\ guild_quoter = NoQuoter

NextRun ==
    \/ ran.op = "none" /\ SetVoiceUpdateCategory
    \/ ran.op = "none" /\ AddVoiceTickerCommand(RunScope)
    \/ ran.op = "none" /\ RemoveVoiceTickerCommand(RunScope)
    \/ ran.op = "none" /\ ForceUpdateTickers(RunScope)
    \/ ran.op = "none" /\ UpdateLoop(RunScope)

SpecRun == InitRun /\ [][NextRun]_vars


-----------------------------------------------------------------------------
(* SpecHeal: two full passes in succession.  A forced pass runs from any    *)
(* category and any configuration; then a user may rename or move one       *)
(* channel of a category the pass left in order; then the hour boundary is  *)
(* reached and the scheduled pass runs, the upstream answering what it      *)
(* answered to the first.  No operation is rejected.                        *)

HealScope ==
    [markets |-> Markets, partial |-> TRUE, rejects |-> {0},
     channels |-> MaxInitial + Cardinality(Symbols), whole |-> TRUE]

FirstPass ==
    /\ ran.op = "none"
    /\ ForceUpdateTickers(HealScope)

\* What the history keeps of the user's edit: the key the channel had, the
\* quotes of the pass before, and the edit as an operation.
HandEdit(op, channel, name, position) ==
    [op |-> op, ticker |-> KeyOf(channel.name), quotes |-> ran.quotes,
     ops |-> <<[op |-> IF op = "hand_rename" THEN "rename" ELSE "move", id |-> channel.id,
                name |-> name, position |-> position, ok |-> TRUE]>>,
     outcome |-> "done"]

\* A channel of the category and the quotes of the pass correspond: one
\* channel per quote, labelled and ordered as the pass leaves them.
LeftInOrder ==
    /\ ran.op = "force_update_tickers"
    /\ ran.outcome = "done"
    /\ SortedByMarketCap(ran.quotes) # <<>>
    /\ [i \in DOMAIN container |-> container[i].name]
       = [i \in DOMAIN ran.quotes |-> CreateChannelName(SortedByMarketCap(ran.quotes)[i])]

\* A user renames one channel.
HandRename ==
    /\ LeftInOrder
    /\ \E i \in DOMAIN container, name \in ForeignNames \cup TickerNames :
        /\ name # container[i].name
        /\ container' = [container EXCEPT ![i].name = name]
        /\ ran' = HandEdit("hand_rename", container[i], name, NoPosition)
    /\ UNCHANGED <<update_category, voice_tickers, loop_state>>
    /\ UNCHANGED <<cacheVars, overlapVars, loopVars, formatVars, limiterVars, quoterVars>>

\* A user drags one channel to another position.
HandMove ==
    /\ LeftInOrder
    /\ \E i \in DOMAIN container, position \in 0..(Len(container) - 1) :
        /\ position # i - 1
        /\ container' = PlaceAt(SeqWithout(container, i), container[i], position)
        /\ ran' = HandEdit("hand_move", container[i], container[i].name, position)
    /\ UNCHANGED <<update_category, voice_tickers, loop_state>>
    /\ UNCHANGED <<cacheVars, overlapVars, loopVars, formatVars, limiterVars, quoterVars>>

\* The scheduled pass, the upstream answering the quotes of the first pass.
SecondPass ==
    /\ ran.op \in {"force_update_tickers", "hand_rename", "hand_move"}
    /\ ran.outcome = "done"
    /\ loop_state = "waiting"
    /\ PassWith("update_loop", ran.quotes, 0, HealScope)
    /\ loop_state' = IF ran'.outcome = "raised" THEN "dead" ELSE "waiting"

NextHeal == FirstPass \/ HandRename \/ HandMove \/ SecondPass

SpecHeal == InitRun /\ [][NextHeal]_vars

-----------------------------------------------------------------------------
(* SpecOverlap: the scheduled pass and one command, a forced pass or        *)
(* /add_voice_ticker, run at once in one guild.  discord.py runs both as    *)
(* coroutines of one event loop: a coroutine runs alone from one await to   *)
(* the next, and the other may run while it awaits.  A step of a task is    *)
(* the code from the await it resumes from to the next await, together with *)
(* the Discord operation that await issues, which takes effect at once.     *)
(* Each task has its own PriceQuoteCache.  Discord rejects an operation on  *)
(* a channel that was deleted, and no other.  The category starts with no   *)
(* two channels of the same key and no channel of a ticker not tracked, so  *)
(* that the handlers run one after the other leave no two channels of the   *)
(* same key.                                                                *)

OverlapScope ==
    [markets |-> GuildScope.markets, partial |-> FALSE, rejects |-> {0},
     channels |-> MaxInitial + Cardinality(Symbols), whole |-> FALSE]

\* The id Discord gives a new channel: one no channel has or had.
FreshId(cont, deleted) ==
    CHOOSE id \in 1..(Len(cont) + Cardinality(deleted) + 1) :
        LET used == ChannelIds(cont) \cup {g.id : g \in deleted}
        IN  id \notin used /\ \A other \in 1..(id - 1) : other \in used

\* channel.name and channel.position of the channel object a task holds: a
\* deleted channel keeps the values it had.
NameOf(cont, deleted, id) ==
    IF id \in ChannelIds(cont) THEN ChannelById(cont, id).name
    ELSE (CHOOSE g \in deleted : g.id = id).name

PositionHeld(cont, deleted, id) ==
    IF id \in ChannelIds(cont) THEN PositionOf(cont, id)
    ELSE (CHOOSE g \in deleted : g.id = id).position

Awaiting(t, cont, deleted) == [t |-> t, cont |-> cont, gone |-> deleted]

\* discord.NotFound out of an await: nothing in the pass catches it
Raised(t, cont, deleted) == Awaiting([t EXCEPT !.pc = "raised"], cont, deleted)

\* update_voice_channels_for_guild from where the task is to its next await:
\* the loop over sorted_quotes at "quote" (the name of the quote at i) and
\* "position" (its position), the loop over existing_channels at "delete".
RECURSIVE PassToAwait(_, _, _)
PassToAwait(t, cont, deleted) ==
    IF t.pc = "quote" THEN
        IF t.i >= Len(t.sorted_quotes)
        THEN PassToAwait([t EXCEPT !.pc = "delete", !.k = 1], cont, deleted)
        ELSE LET quote == t.sorted_quotes[t.i + 1]
                 channel_name == CreateChannelName(quote)
             IN  IF quote.symbol \in DictKeys(t.existing)
                 THEN LET id == DictGet(t.existing, quote.symbol)
                      IN  IF NameOf(cont, deleted, id) # channel_name
                          THEN IF id \in ChannelIds(cont)
                               THEN Awaiting([t EXCEPT !.pc = "position"],
                                             EditName(StartRun(cont), id, channel_name, 0).cont,
                                             deleted)
                               ELSE Raised(t, cont, deleted)
                          ELSE PassToAwait([t EXCEPT !.pc = "position"], cont, deleted)
                 ELSE Awaiting([t EXCEPT !.i = @ + 1],
                               PlaceAt(cont, [id |-> FreshId(cont, deleted),
                                              name |-> channel_name], t.i),
                               deleted)
    ELSE IF t.pc = "position" THEN
        LET id == DictGet(t.existing, t.sorted_quotes[t.i + 1].symbol)
            next == [t EXCEPT !.pc = "quote", !.i = @ + 1]
        IN  IF PositionHeld(cont, deleted, id) # t.i
            THEN IF id \in ChannelIds(cont)
                 THEN Awaiting(next, EditPosition(StartRun(cont), id, t.i, 0).cont, deleted)
                 ELSE Raised(t, cont, deleted)
            ELSE PassToAwait(next, cont, deleted)
    ELSE IF t.pc = "delete" THEN
        IF t.k > Len(t.existing) THEN Awaiting([t EXCEPT !.pc = "done"], cont, deleted)
        ELSE LET id == t.existing[t.k].id
                 next == [t EXCEPT !.k = @ + 1]
             IN  IF t.existing[t.k].key
                       \notin {t.sorted_quotes[j].symbol : j \in DOMAIN t.sorted_quotes}
                 THEN IF id \in ChannelIds(cont)
                      THEN Awaiting(next, DeleteChannel(StartRun(cont), id, 0).cont,
                                    deleted \cup {[id |-> id, name |-> ChannelById(cont, id).name,
                                                   position |-> PositionOf(cont, id)]})
                      ELSE Raised(t, cont, deleted)
                 ELSE PassToAwait(next, cont, deleted)
    ELSE Awaiting(t, cont, deleted)

\* The task who is left awaiting; an exception out of the pass ends the loop.
Await(who, r) ==
    /\ tasks' = [tasks EXCEPT ![who] = r.t]
    /\ container' = r.cont
    /\ gone' = r.gone
    /\ loop_state' = IF who = "loop" /\ r.t.pc = "raised" THEN "dead" ELSE loop_state
    /\ UNCHANGED <<update_category, voice_tickers, ran>>
    /\ UNCHANGED <<cacheVars, loopVars, formatVars, limiterVars, quoterVars>>

\* update_voice_channels_for_guild is called and awaits its fetch.
StartPass(who, op) ==
    /\ tasks[who].pc = "idle"
    /\ update_category # 0
    /\ voice_tickers # <<>>
    /\ tasks' = [tasks EXCEPT ![who] = [NoTask EXCEPT !.pc = "fetch", !.op = op,
                                                      !.asked = voice_tickers]]
    /\ UNCHANGED <<gone, guildVars, cacheVars, loopVars, formatVars, limiterVars, quoterVars>>

\* The fetch of a pass returns: existing_channels is read, and the pass goes
\* on to its first operation.
PassFetched(who, op) ==
    /\ tasks[who].pc = "fetch"
    /\ tasks[who].op = op
    /\ \E quotes \in FetchResults(tasks[who].asked,
                                  Resolvable(tasks[who].asked, OverlapScope),
                                  OverlapScope.markets) :
         IF quotes = <<>>
         THEN Await(who, Awaiting([tasks[who] EXCEPT !.pc = "returned"], container, gone))
         ELSE \E r \in {PassToAwait([tasks[who] EXCEPT
                                        !.pc = "quote",
                                        !.sorted_quotes = SortedByMarketCap(quotes),
                                        !.existing = ExistingChannels(container),
                                        !.i = 0],
                                    container, gone)} :
                Await(who, r)

\* The operation a pass awaited is done, and the pass goes on to its next.
PassResumed(who, op) ==
    /\ tasks[who].pc \in {"quote", "position", "delete"}
    /\ tasks[who].op = op
    /\ \E r \in {PassToAwait(tasks[who], container, gone)} : Await(who, r)

\* /add_voice_ticker ticker is given and awaits _validate_ticker.
AddStarted ==
    /\ tasks["command"].pc = "idle"
    /\ update_category # 0
    /\ \E ticker \in Symbols :
         tasks' = [tasks EXCEPT !["command"] = [NoTask EXCEPT !.pc = "validate",
                                                             !.op = "add_voice_ticker",
                                                             !.ticker = ticker]]
    /\ UNCHANGED <<gone, guildVars, cacheVars, loopVars, formatVars, limiterVars, quoterVars>>

\* _validate_ticker returns: the ticker is appended to voice_tickers and
\* VoiceChannelUpdater.add_voice_ticker awaits its fetch.
AddValidated ==
    /\ tasks["command"].pc = "validate"
    /\ \E valid \in ValidateTicker(tasks["command"].ticker, OverlapScope.markets) :
         IF valid = "found" /\ tasks["command"].ticker \notin Range(voice_tickers)
         THEN /\ voice_tickers' = Append(voice_tickers, tasks["command"].ticker)
              /\ tasks' = [tasks EXCEPT !["command"].pc = "fetch",
                                        !["command"].asked = voice_tickers']
         ELSE /\ tasks' = [tasks EXCEPT !["command"].pc =
                               IF valid = "raised" THEN "raised" ELSE "returned"]
              /\ UNCHANGED voice_tickers
    /\ UNCHANGED <<gone, update_category, container, loop_state, ran, cacheVars,
                   loopVars, formatVars, limiterVars, quoterVars>>

\* The fetch of add_voice_ticker returns, and the channel is created at the end.
AddFetched ==
    /\ tasks["command"].pc = "fetch"
    /\ tasks["command"].op = "add_voice_ticker"
    /\ \E all_quotes \in FetchResults(tasks["command"].asked,
                                      Resolvable(tasks["command"].asked, OverlapScope),
                                      OverlapScope.markets) :
         LET sorted_quotes == SortedByMarketCap(all_quotes)
             places == PlacesOf(sorted_quotes, tasks["command"].ticker)
             new_id == FreshId(container, gone)
         IN  IF all_quotes = <<>> \/ places = {}
             THEN Await("command",
                        Awaiting([tasks["command"] EXCEPT !.pc = "returned"], container, gone))
             ELSE Await("command",
                        Awaiting([tasks["command"] EXCEPT !.pc = "created",
                                                          !.sorted_quotes = sorted_quotes,
                                                          !.i = Min(places),
                                                          !.new_id = new_id],
                                 Append(container,
                                        [id |-> new_id,
                                         name |-> CreateChannelName(
                                                      sorted_quotes[Min(places) + 1])]),
                                 gone))

\* The create of add_voice_ticker is done, and the new channel is moved.
AddResumed ==
    /\ tasks["command"].pc = "created"
    /\ LET t == tasks["command"]
           done == [t EXCEPT !.pc = "done"]
           existing_channels == SelectSeq(container, LAMBDA ch : ch.id # t.new_id)
           target_position == t.i
           channels_before == target_position
       IN  IF target_position = 0 \/ channels_before < Len(existing_channels)
           THEN IF t.new_id \in ChannelIds(container)
                THEN Await("command",
                           Awaiting(done,
                                    EditPosition(StartRun(container), t.new_id,
                                        IF target_position = 0 THEN 0
                                        ELSE PositionOf(container,
                                                 existing_channels[channels_before].id) + 1,
                                        0).cont,
                                    gone))
                ELSE Await("command", Raised(t, container, gone))
           ELSE Await("command", Awaiting(done, container, gone))

InitOverlap ==
    /\ cache = <<>>
    /\ last_request_time = 0
    /\ session = "none"
    /\ clock = StartClock
    /\ requested = FALSE
    /\ call = NoCall
    /\ update_category = 1
    /\ voice_tickers \in TickerLists
    /\ container \in {cont \in UNION {CategoriesOf(ForeignNames \cup TickerNames, n) :
                                         n \in 0..MaxInitial} :
                         /\ UniqueKeys(cont)
                         /\ \A i \in DOMAIN cont :
                              KeyOf(cont[i].name) \in Symbols
                                  => KeyOf(cont[i].name) \in Range(voice_tickers)}
    /\ loop_state = "waiting"
    /\ ran = NoRun
    /\ tasks = NoTasks
    /\ gone = {}
    /\ client_closed = FALSE
    /\ timer = NoTimer
    /\ ticks = NoTicks
    /\ lru = <<>>
    /\ formatted = NoFormat
    /\ callers = <<>>
    /\ issue_times = <<>>
    /\ guild_quoter = NoQuoter

NextOverlap ==
    \/ loop_state = "waiting" /\ StartPass("loop", "update_loop")
    \/ PassFetched("loop", "update_loop")
    \/ PassResumed("loop", "update_loop")
    \/ StartPass("command", "force_update_tickers")
    \/ PassFetched("command", "force_update_tickers")
    \/ PassResumed("command", "force_update_tickers")
    \/ AddStarted
    \/ AddValidated
    \/ AddFetched
    \/ AddResumed

SpecOverlap == InitOverlap /\ [][NextOverlap]_vars

-----------------------------------------------------------------------------
(* SpecLoop: one update loop, the client and the clock.  The loop is the    *)
(* coroutine of update_loop after wait_until_ready: it awaits               *)
(* boundary_timer, then the pass of each guild of config.guilds in turn.    *)
(* asyncio.sleep ends at the time asked for; the pass of a guild takes some *)
(* time and returns; the client may close and open again at any time.       *)

Cadences == (1..MaxCadence) \cup {VoiceCadence, MessageCadence}

\* A next_boundary that is 0 on a boundary.
NextBoundaryOrNow(cadence, now) == (cadence - (now % cadence)) % cadence

\* next_boundary = cadence - (now % cadence)
NextBoundary(cadence, now) == cadence - (now % cadence)

\* boundary_timer(cadence, name) called at time now, up to its first sleep
BoundaryTimer(cadence, now) ==
    [pc |-> "sleep", cadence |-> cadence, now |-> now,
     next_boundary |-> NextBoundary(cadence, now),
     wake |-> now + NextBoundary(cadence, now), guild |-> 0]

\* A check that lets the tick go when the client is closed, and sleeps to
\* the next boundary.
ClientCheckSkipsTick(t, closed, now) ==
    IF closed THEN BoundaryTimer(t.cadence, now) ELSE [t EXCEPT !.pc = "returned"]

\* while self.client.is_closed(): await asyncio.sleep(180), entered at time now
ClientCheck(t, closed, now) ==
    IF closed THEN [t EXCEPT !.pc = "backoff", !.wake = now + Backoff]
    ELSE [t EXCEPT !.pc = "returned"]

\* A loop that goes back to boundary_timer when the pass of the first guild
\* returns, the passes of the other guilds started and not awaited.
NextInUpdateAllNoWait(t, running, now) ==
    [t |-> BoundaryTimer(t.cadence, now), running |-> (running \ {t.guild}) \cup (2..NumGuilds)]

\* update_all_voice_channels when the pass of guild t.guild returns at time
\* now: the pass of the next guild is awaited, or the loop calls
\* boundary_timer again.
NextInUpdateAll(t, running, now) ==
    IF t.guild < NumGuilds
    THEN [t |-> [t EXCEPT !.guild = @ + 1], running |-> (running \ {t.guild}) \cup {t.guild + 1}]
    ELSE [t |-> BoundaryTimer(t.cadence, now), running |-> running \ {t.guild}]

\* A sleep of boundary_timer ends at time timer.wake: the client is checked,
\* and boundary_timer sleeps again or returns, and the callback is invoked.
SleepEnds(pc) ==
    /\ timer.pc = pc
    /\ \E t \in {ClientCheck(timer, client_closed, timer.wake)} :
         IF t.pc = "returned"
         THEN /\ Len(ticks.invoked) < MaxTicks
              /\ timer' = [t EXCEPT !.pc = "pass", !.guild = 1]
              /\ ticks' = [ticks EXCEPT !.invoked = Append(@, timer.wake),
                                        !.running = @ \cup {1}]
         ELSE /\ ticks.rechecks < MaxRechecks
              /\ timer' = t
              /\ ticks' = [ticks EXCEPT !.rechecks = @ + 1]
    /\ clock' = timer.wake
    /\ UNCHANGED <<cache, last_request_time, session, requested, call, client_closed>>
    /\ UNCHANGED <<guildVars, overlapVars, formatVars, limiterVars, quoterVars>>

\* The pass of the guild the loop awaits returns.
PassReturns ==
    /\ timer.pc = "pass"
    /\ \E took \in 0..MaxPass :
         \E r \in {NextInUpdateAll(timer, ticks.running, clock + took)} :
            /\ clock' = clock + took
            /\ timer' = r.t
            /\ ticks' = [ticks EXCEPT !.running = r.running]
    /\ UNCHANGED <<cache, last_request_time, session, requested, call, client_closed>>
    /\ UNCHANGED <<guildVars, overlapVars, formatVars, limiterVars, quoterVars>>

\* The client closes, or opens again.
ClientToggles ==
    /\ client_closed' = ~client_closed
    /\ ticks' = [ticks EXCEPT !.closed_seen = TRUE]
    /\ UNCHANGED <<timer, cacheVars, guildVars, overlapVars, formatVars, limiterVars, quoterVars>>

InitLoop ==
    /\ cache = <<>>
    /\ last_request_time = 0
    /\ session = "none"
    /\ clock \in 0..MaxStart
    /\ requested = FALSE
    /\ call = NoCall
    /\ update_category = 1
    /\ voice_tickers = <<>>
    /\ container = <<>>
    /\ loop_state = "waiting"
    /\ ran = NoRun
    /\ tasks = NoTasks
    /\ gone = {}
    /\ client_closed = FALSE
    /\ \E cadence \in Cadences : timer = BoundaryTimer(cadence, clock)
    /\ ticks = [NoTicks EXCEPT !.started = clock]
    /\ lru = <<>>
    /\ formatted = NoFormat
    /\ callers = <<>>
    /\ issue_times = <<>>
    /\ guild_quoter = NoQuoter

NextLoop == SleepEnds("sleep") \/ SleepEnds("backoff") \/ PassReturns \/ ClientToggles

SpecLoop == InitLoop /\ [][NextLoop]_vars

-----------------------------------------------------------------------------
(* SpecFormat: calls of format_price, the function of quote.py under        *)
(* lru_cache, and of _format_price with the same price.  A price is counted *)
(* in millionths, as everywhere in this module.                             *)

\* The prices of the calls: the ends of the bands and their neighbours, and
\* prices that round up to the next band.
FormatPrices ==
    {0, 1, 9999, 10000, 10001, 500000, 999949, 999950, 999999,
     PriceUnit, PriceUnit + 1, 1500000, 999990000, 999994999, 999995000,
     999999999, 1000 * PriceUnit, 1000 * PriceUnit + 1, 1500 * PriceUnit}

\* A format_price whose bands hold their upper ends.
format_price_upper_inclusive(price) ==
    IF price <= PriceUnit \div 100 THEN "$" \o FixedPoint(price, 6)
    ELSE IF price <= PriceUnit THEN "$" \o FixedPoint(price, 4)
    ELSE IF price <= 1000 * PriceUnit THEN "$" \o FixedPoint(price, 2)
    ELSE "$" \o FixedPoint(price, 0)

\* format_price, the function lru_cache wraps
format_price(price) ==
    IF price < PriceUnit \div 100 THEN "$" \o FixedPoint(price, 6)
    ELSE IF price < PriceUnit THEN "$" \o FixedPoint(price, 4)
    ELSE IF price < 1000 * PriceUnit THEN "$" \o FixedPoint(price, 2)
    ELSE "$" \o FixedPoint(price, 0)

\* The places of the entries of the lru cache made for a price
LruHits(entries, price) == {i \in DOMAIN entries : entries[i].price = price}

\* entries without its entry at place i
LruWithout(entries, i) == SubSeq(entries, 1, i - 1) \o SubSeq(entries, i + 1, Len(entries))

\* A call through @lru_cache(maxsize=128): a hit returns the stored result
\* and makes its entry the most recent; a miss calls the function, stores
\* the result as the most recent entry and, the cache full, drops the least
\* recent one.
LruCall(entries, price) ==
    IF LruHits(entries, price) # {}
    THEN LET i == CHOOSE j \in LruHits(entries, price) : TRUE
         IN  [out |-> entries[i].out, hit |-> TRUE,
              lru |-> Append(LruWithout(entries, i), entries[i])]
    ELSE LET out == format_price(price)
             kept == IF Len(entries) >= LruMaxSize THEN Tail(entries) ELSE entries
         IN  [out |-> out, hit |-> FALSE,
              lru |-> Append(kept, [price |-> price, out |-> out])]

\* format_price(price) and self._format_price(price) are called.
FormatCall ==
    /\ \E price \in FormatPrices :
         /\ LruHits(lru, price) # {} \/ Len(lru) < MaxFormatCalls
         /\ \E r \in {LruCall(lru, price)} :
              /\ lru' = r.lru
              /\ formatted' = [price |-> price, out |-> r.out,
                               voice |-> FormatPrice(price), hit |-> r.hit]
    /\ UNCHANGED <<cacheVars, guildVars, overlapVars, loopVars, limiterVars, quoterVars>>

NextFormat == FormatCall

SpecFormat == InitCache /\ [][NextFormat]_vars

-----------------------------------------------------------------------------
(* SpecLimiter: the tasks of one event loop calling _rate_limit of one      *)
(* PriceQuoteCache instance.  A task runs from one await to the next        *)
(* without interruption; the only await of _rate_limit is its sleep, which  *)
(* ends at the time asked for.  The request is issued when _rate_limit      *)
(* returns.                                                                 *)

Sleeping == {t \in DOMAIN callers : callers[t].pc = "sleeping"}

\* A task calls _rate_limit: it reads the clock and last_request_time, and
\* sleeps, or writes last_request_time and returns at once.
RateLimitEnter(t) ==
    /\ callers[t].pc = "out"
    /\ Len(issue_times) + Cardinality(Sleeping) < MaxIssued
    /\ \E delay \in {RateLimitDelay(clock, last_request_time)} :
         IF delay > 0
         THEN /\ callers' = [callers EXCEPT ![t] = [pc |-> "sleeping", wake |-> clock + delay]]
              /\ UNCHANGED <<last_request_time, issue_times>>
         ELSE /\ last_request_time' = clock
              /\ issue_times' = Append(issue_times, clock)
              /\ UNCHANGED callers
    /\ UNCHANGED <<cache, session, clock, requested, call>>
    /\ UNCHANGED <<guildVars, overlapVars, loopVars, formatVars, quoterVars>>

\* The sleep of a task ends, no other sleep ending earlier: the task writes
\* last_request_time = time.time() and returns.
RateLimitWake(t) ==
    /\ callers[t].pc = "sleeping"
    /\ \A u \in Sleeping : callers[t].wake <= callers[u].wake
    /\ clock' = callers[t].wake
    /\ last_request_time' = callers[t].wake
    /\ issue_times' = Append(issue_times, callers[t].wake)
    /\ callers' = [callers EXCEPT ![t] = NoCaller]
    /\ UNCHANGED <<cache, session, requested, call>>
    /\ UNCHANGED <<guildVars, overlapVars, loopVars, formatVars, quoterVars>>

\* A second passes, no sleep ending before.
LimiterTick ==
    /\ clock + 1 <= TickHorizon
    /\ \A u \in Sleeping : clock + 1 <= callers[u].wake
    /\ clock' = clock + 1
    /\ UNCHANGED <<cache, last_request_time, session, requested, call>>
    /\ UNCHANGED <<guildVars, overlapVars, loopVars, formatVars, limiterVars, quoterVars>>

InitLimiter ==
    /\ cache = <<>>
    /\ last_request_time = 0
    /\ session = "none"
    /\ clock = StartClock
    /\ requested = FALSE
    /\ call = NoCall
    /\ update_category = 0
    /\ voice_tickers = <<>>
    /\ container = <<>>
    /\ loop_state = "waiting"
    /\ ran = NoRun
    /\ tasks = NoTasks
    /\ gone = {}
    /\ client_closed = FALSE
    /\ timer = NoTimer
    /\ ticks = NoTicks
    /\ lru = <<>>
    /\ formatted = NoFormat
    /\ callers = [t \in 1..NumCallers |-> NoCaller]
    /\ issue_times = <<>>
    /\ guild_quoter = NoQuoter

NextLimiter ==
    \/ \E t \in 1..NumCallers : RateLimitEnter(t)
    \/ \E t \in 1..NumCallers : RateLimitWake(t)
    \/ LimiterTick

SpecLimiter == InitLimiter /\ [][NextLimiter]_vars

-----------------------------------------------------------------------------
(* SpecQuoter: the handlers that construct a PriceQuoteCache, one after the *)
(* other: update_voice_channels_for_guild, add_voice_ticker and             *)
(* update_message_tickers_for_guild.  cache, last_request_time and session  *)
(* are the fields of the instance guild_quoter of the handler running, and  *)
(* of the last one that ran when none is.  The handler steps from its       *)
(* construction of guild_quoter to the fetches it awaits and to the way it  *)
(* leaves the try block; what it does to the channels is left out.          *)

QuoterHandlers == {"update_voice_channels_for_guild", "add_voice_ticker",
                   "update_message_tickers_for_guild"}

\* The lists a handler asks quotes for: voice_tickers, not empty in a full
\* pass and holding the new ticker in an add, the keys of message_tickers,
\* not empty, and the two tickers of a ratio pair.
AskedLists == SymbolLists \ {<<>>}

\* A handler whose close stands at the end of the try block, not in a
\* finally clause.
ClosesOnReturnOnly(exit) == exit # "raise"

\* try: ... finally: await guild_quoter.close(): whether close runs when the
\* try block is left by exit
ClosesOn(exit) == exit \in {"return", "early_return", "raise"}

\* The ways a handler may leave its try block where it stands
QuoterExits(q) ==
    IF q.op = "update_message_tickers_for_guild"
    THEN IF q.fetches = 0 THEN {"return"} ELSE {"return", "raise"}
    ELSE IF q.fetches = 0 THEN {}
    ELSE IF q.quotes = "empty" THEN {"early_return"}
    ELSE IF q.op = "add_voice_ticker" THEN {"early_return", "return", "raise"}
    ELSE {"return", "raise"}

\* guild_quoter = PriceQuoteCache(guild_config.cmc_api_key), and try:
QuoterConstruct ==
    /\ guild_quoter.pc = "none"
    /\ \E op \in QuoterHandlers :
         guild_quoter' = [NoQuoter EXCEPT !.pc = "try", !.op = op,
                                          !.exit = guild_quoter.exit]
    /\ cache' = <<>>
    /\ last_request_time' = 0
    /\ session' = "none"
    /\ call' = [NoCall EXCEPT !.op = "construct"]
    /\ UNCHANGED <<clock, requested>>
    /\ UNCHANGED <<guildVars, overlapVars, loopVars, formatVars, limiterVars>>

\* await guild_quoter.fetch(symbols, time.time()) in the try block
QuoterFetch ==
    /\ guild_quoter.pc = "try"
    /\ guild_quoter.fetches <
         (IF guild_quoter.op = "update_message_tickers_for_guild" THEN MaxFetches ELSE 1)
    /\ \E symbols \in AskedLists : \E outcome \in CacheOutcomes(symbols) :
         \E r \in {Fetch(cache, last_request_time, symbols, clock, clock, outcome)} :
            /\ InWindow(clock, r.done)
            /\ cache' = r.cache
            /\ last_request_time' = r.last
            /\ clock' = r.done
            /\ session' = IF r.upstream THEN "open" ELSE session
            /\ requested' = (requested \/ r.upstream)
            /\ call' = CallRecord("fetch", symbols, outcome, r)
            /\ guild_quoter' = [guild_quoter EXCEPT
                                  !.fetches = @ + 1,
                                  !.quotes = IF r.value = <<>> THEN "empty" ELSE "some"]
    /\ UNCHANGED <<guildVars, overlapVars, loopVars, formatVars, limiterVars>>

\* The try block is left, by a return or by an exception of Discord, and the
\* finally clause runs.
QuoterLeave ==
    /\ guild_quoter.pc = "try"
    /\ \E exit \in QuoterExits(guild_quoter) :
         /\ guild_quoter' = [guild_quoter EXCEPT !.pc = "none", !.exit = exit]
         /\ IF ClosesOn(exit)
            THEN /\ session' = IF session = "open" THEN "closed" ELSE session
                 /\ cache' = <<>>
            ELSE UNCHANGED <<session, cache>>
    /\ call' = [NoCall EXCEPT !.op = "leave"]
    /\ UNCHANGED <<last_request_time, clock, requested>>
    /\ UNCHANGED <<guildVars, overlapVars, loopVars, formatVars, limiterVars>>

NextQuoter == QuoterConstruct \/ QuoterFetch \/ QuoterLeave \/ Tick

SpecQuoter == InitCache /\ [][NextQuoter]_vars

-----------------------------------------------------------------------------
(* Properties of PriceQuoteCache, checked under SpecCache.  A step of       *)
(* SpecCache writes to call what it did, so call' describes the step from   *)
(* the unprimed state to the primed one.                                    *)

\* The step is a call that made a request to the upstream, which failed.
UpstreamFailed(c) == c.kind \in {"error", "non_numeric", "throttled"}

\* The step is a call that made a request to the upstream.
UpstreamCalled(c) == c.kind # "none"

\* C3: when the upstream call of a fetch fails and the cache held an entry
\* for the key when fetch was called, expired or not, fetch returns the
\* quotes of that entry.
C3_StaleFallback ==
    [][(call'.op = "fetch" /\ UpstreamFailed(call') /\ call'.key \in CacheKeys(cache))
       => call'.value = CacheEntry(cache, call'.key).data]_vars

C5_TtlCorrectness ==
    [][(call'.op = "fetch" /\ call'.key \in CacheKeys(cache))
       => IF clock < CacheEntry(cache, call'.key).timestamp + CacheTtl
          THEN ~UpstreamCalled(call') /\ call'.value = CacheEntry(cache, call'.key).data
          ELSE UpstreamCalled(call')]_vars

\* C6: the cache never holds more than max_cache_size entries.
C6_CacheBound == Len(cache) <= MaxCacheSize

\* C7: two requests issued one after the other through one instance are
\* issued at least min_request_interval apart.
C7_RateLimitSpacing ==
    [][(requested /\ call'.op \in {"fetch", "fetch_no_cache"} /\ UpstreamCalled(call'))
       => last_request_time' - last_request_time >= MinRequestInterval]_vars

\* A request was issued after the rate limiter made its call sleep.
C7_Witness ==
    /\ requested
    /\ call.waited
    /\ last_request_time = clock

-----------------------------------------------------------------------------
(* Properties of VoiceChannelUpdater.  A handler writes to ran what it did, *)
(* so ran' describes the step from the unprimed state to the primed one.    *)

\* The step is a full pass: update_voice_channels_for_guild, forced or scheduled.
IsFullPass(r) == r.op \in {"force_update_tickers", "update_loop"}

QuoteSymbols(quotes) == {quotes[i].symbol : i \in DOMAIN quotes}

\* The place in quotes of the quote of symbol
QuotePlace(quotes, symbol) == CHOOSE i \in DOMAIN quotes : quotes[i].symbol = symbol

\* C1: from a category in which no two channels have the same key, after any
\* sequence of handlers run one at a time, no two channels of the category
\* have the same key.
C1_UniqueKeys == UniqueKeys(container)

\* cont holds one channel per quote and no other, each with the label of its
\* quote, in descending order of market cap, quotes of equal market cap in
\* the order of quotes.
InDesiredOrder(cont, quotes) ==
    /\ Len(cont) = Len(quotes)
    /\ \A i \in DOMAIN cont : KeyOf(cont[i].name) \in QuoteSymbols(quotes)
    /\ \A i \in DOMAIN cont :
         cont[i].name = CreateChannelName(quotes[QuotePlace(quotes, KeyOf(cont[i].name))])
    /\ \A i, j \in DOMAIN cont :
         i < j => LET p == QuotePlace(quotes, KeyOf(cont[i].name))
                      q == QuotePlace(quotes, KeyOf(cont[j].name))
                  IN  \/ quotes[p].market_cap > quotes[q].market_cap
                      \/ quotes[p].market_cap = quotes[q].market_cap /\ p < q

\* C2: whatever the category held, after a full pass that ran to completion
\* on a non-empty quote list the category holds exactly one channel per quote,
\* in descending order of market cap (ties in the order of the quotes), each
\* with the label of its quote.
C2_FinalOrder ==
    [][(IsFullPass(ran') /\ ran'.outcome = "done")
       => InDesiredOrder(container', ran'.quotes)]_vars

\* C8: when the callback of the update loop raises, the loop goes on waiting
\* for the next boundary.
C8_LoopSurvives ==
    [][(ran'.op = "update_loop" /\ ran'.outcome = "raised") => loop_state' = "waiting"]_vars

\* C9: in a full pass whose quote list is non-empty and leaves out a tracked
\* symbol, no create and no delete is issued for that symbol, and a channel
\* of that key is in the category afterwards, unedited.
C9_UnresolvedSkipped ==
    [][(IsFullPass(ran') /\ ran'.quotes # <<>>)
       => \A symbol \in Range(voice_tickers) \ QuoteSymbols(ran'.quotes) :
            /\ \A k \in DOMAIN ran'.ops :
                 ~(ran'.ops[k].op \in {"create", "delete"} /\ KeyOf(ran'.ops[k].name) = symbol)
            /\ \A i \in DOMAIN container :
                 KeyOf(container[i].name) = symbol
                 => /\ container[i] \in Range(container')
                    /\ \A k \in DOMAIN ran'.ops : ran'.ops[k].id # container[i].id]_vars

\* C10: a channel of the category whose key is not a tracked symbol receives
\* no rename, no reposition and no delete from a full pass, from
\* add_voice_ticker or from remove_voice_ticker.
C10_ForeignUntouched ==
    [][\A i \in DOMAIN container :
         KeyOf(container[i].name) \notin Range(voice_tickers) \cup Range(voice_tickers')
         => \A k \in DOMAIN ran'.ops :
              ran'.ops[k].op = "create" \/ ran'.ops[k].id # container[i].id]_vars

\* The rank of the quote at place p: the number of quotes that come before
\* it in descending order of market cap, quotes of equal market cap in the
\* order of quotes.
RankOf(quotes, p) ==
    Cardinality({q \in DOMAIN quotes :
                   \/ quotes[q].market_cap > quotes[p].market_cap
                   \/ quotes[q].market_cap = quotes[p].market_cap /\ q < p})

\* C12: a full pass that finds the category empty and runs to completion on
\* N quotes issues exactly N operations, the k-th a create at position k-1
\* with the label of the quote of rank k-1.
C12_FromEmpty ==
    [][(IsFullPass(ran') /\ ran'.outcome = "done" /\ container = <<>>)
       => /\ Len(ran'.ops) = Len(ran'.quotes)
          /\ \A k \in DOMAIN ran'.ops :
               /\ ran'.ops[k].op = "create"
               /\ ran'.ops[k].position = k - 1
               /\ \E p \in DOMAIN ran'.quotes :
                    /\ RankOf(ran'.quotes, p) = k - 1
                    /\ ran'.ops[k].name = CreateChannelName(ran'.quotes[p])]_vars

\* A full pass has created three channels in a category that held none, the
\* quotes having come in another order than that of their market caps.
C12_Witness ==
    /\ IsFullPass(ran)
    /\ ran.outcome = "done"
    /\ Len(ran.ops) = 3
    /\ \A k \in DOMAIN ran.ops : ran.ops[k].op = "create" /\ ran.ops[k].id = k
    /\ Len(container) = 3
    /\ ran.quotes[1].market_cap < ran.quotes[2].market_cap

\* The operations of kind op among ops
OpsOfKind(ops, op) == {k \in DOMAIN ops : ops[k].op = op}

\* C13: add_voice_ticker issues at most one create and at most one
\* reposition, both on the new channel, and no rename, reposition or delete
\* on a channel the category held before, whichever way it ends.
C13_AddLeavesOthers ==
    [][ran'.op = "add_voice_ticker"
       => /\ Cardinality(OpsOfKind(ran'.ops, "create")) <= 1
          /\ Cardinality(OpsOfKind(ran'.ops, "move")) <= 1
          /\ OpsOfKind(ran'.ops, "rename") = {}
          /\ OpsOfKind(ran'.ops, "delete") = {}
          /\ \A k \in DOMAIN ran'.ops : ran'.ops[k].id \notin ChannelIds(container)
          /\ \A i \in DOMAIN container : container[i] \in Range(container')]_vars

\* An add has created its channel and moved it between two channels the
\* category held before.
C13_Witness ==
    /\ ran.op = "add_voice_ticker"
    /\ ran.outcome = "done"
    /\ Len(ran.ops) = 2
    /\ ran.ops[1].op = "create"
    /\ ran.ops[2].op = "move" /\ ran.ops[2].id = ran.ops[1].id
    /\ Len(container) = 3
    /\ container[2].id = ran.ops[1].id

\* cont holds one channel per ticker of tickers and no other, in descending
\* order of the market caps of quotes (ties in the order of quotes).
HoldsInRankOrder(cont, tickers, quotes) ==
    /\ Len(cont) = Len(tickers)
    /\ UniqueKeys(cont)
    /\ \A i \in DOMAIN cont : KeyOf(cont[i].name) \in Range(tickers)
    /\ \A i, j \in DOMAIN cont :
         i < j => RankOf(quotes, QuotePlace(quotes, KeyOf(cont[i].name)))
                  < RankOf(quotes, QuotePlace(quotes, KeyOf(cont[j].name)))

\* C14: when the category holds exactly the other tracked tickers in
\* descending order of market cap and the upstream returns a quote for every
\* tracked ticker, add_voice_ticker leaves the new channel at the rank of its
\* quote, and issues a reposition only when that rank is not the last one.
C14_AddAtRank ==
    [][(/\ ran'.op = "add_voice_ticker"
        /\ ran'.outcome = "done"
        /\ QuoteSymbols(ran'.quotes) = Range(voice_tickers')
        /\ HoldsInRankOrder(container, voice_tickers, ran'.quotes))
       => LET rank == RankOf(ran'.quotes, QuotePlace(ran'.quotes, ran'.ticker))
          IN  /\ PositionOf(container', ran'.ops[1].id) = rank
              /\ OpsOfKind(ran'.ops, "move") # {} => rank # Len(ran'.quotes) - 1]_vars

\* C15: remove_voice_ticker(guild, S) issues one operation, the delete of a
\* channel whose key is S, when the category holds such a channel, and no
\* operation when it holds none; the other channels stay as they are.
C15_RemoveOne ==
    [][ran'.op = "remove_voice_ticker"
       => LET matching == {i \in DOMAIN container : KeyOf(container[i].name) = ran'.ticker}
          IN  IF matching = {}
              THEN ran'.ops = <<>> /\ container' = container
              ELSE /\ Len(ran'.ops) = 1
                   /\ ran'.ops[1].op = "delete"
                   /\ \E i \in matching :
                        /\ ran'.ops[1].id = container[i].id
                        /\ container' = IF ran'.ops[1].ok THEN SeqWithout(container, i)
                                        ELSE container]_vars

\* A remove has deleted one channel and left another in the category.
C15_Witness ==
    /\ ran.op = "remove_voice_ticker"
    /\ ran.outcome = "done"
    /\ Len(ran.ops) = 1
    /\ ran.ops[1].op = "delete" /\ ran.ops[1].ok
    /\ Len(container) = 1
    /\ KeyOf(container[1].name) # ran.ticker

\* C17: a full pass in which Discord rejects an operation does not issue it
\* again and does not abort: it ends without raising, and the create of
\* every quote that has no channel is issued, and so is the delete of every
\* channel whose key has no quote.
C17_FailureContained ==
    [][(IsFullPass(ran') /\ \E k \in DOMAIN ran'.ops : ~ran'.ops[k].ok)
       => /\ ran'.outcome # "raised"
          /\ \A k, l \in DOMAIN ran'.ops :
               (k < l /\ ~ran'.ops[k].ok)
               => [ran'.ops[l] EXCEPT !.ok = FALSE] # ran'.ops[k]
          /\ \A symbol \in QuoteSymbols(ran'.quotes) :
               (\A i \in DOMAIN container : KeyOf(container[i].name) # symbol)
               => \E k \in DOMAIN ran'.ops :
                    ran'.ops[k].op = "create" /\ KeyOf(ran'.ops[k].name) = symbol
          /\ \A i \in DOMAIN container :
               (/\ KeyOf(container[i].name) \notin QuoteSymbols(ran'.quotes)
                /\ \A j \in DOMAIN container :
                     j > i => KeyOf(container[j].name) # KeyOf(container[i].name))
               => \E k \in DOMAIN ran'.ops :
                    ran'.ops[k].op = "delete" /\ ran'.ops[k].id = container[i].id]_vars

-----------------------------------------------------------------------------
(* More properties of PriceQuoteCache, checked under SpecCache *)

\* The step is a call whose request was answered with status 200 and a body
\* of unexpected shape: no 'data', or a field that is not a number.
UnexpectedShape(c) == c.kind \in {"no_data", "non_numeric"}

\* C18: when the upstream answers 200 with a body of unexpected shape,
\* fetch_no_cache raises and fetch does not return the empty list.
C18_ParseFailureIsError ==
    [][UnexpectedShape(call')
       => /\ call'.op = "fetch_no_cache" => call'.raised
          /\ call'.op = "fetch" => call'.value # <<>>]_vars

-----------------------------------------------------------------------------
(* Properties of two passes in succession, checked under SpecHeal *)

\* C11: a full pass that follows a completed full pass, with the same quotes
\* and nothing done to the category in between, issues no operation.
C11_Idempotent ==
    [][(/\ IsFullPass(ran) /\ ran.outcome = "done"
        /\ IsFullPass(ran') /\ ran'.quotes = ran.quotes)
       => ran'.ops = <<>>]_vars

\* The rank of the quote of symbol among quotes, 0 the largest market cap
DesiredPlace(quotes, symbol) ==
    CHOOSE k \in 0..(Len(quotes) - 1) : SortedByMarketCap(quotes)[k + 1].symbol = symbol

\* C16: when one channel of a category left in order by a pass is renamed or
\* moved by hand, the next full pass with the same quotes leaves that same
\* channel with the label and at the position of its quote, and issues no
\* operation on any other channel that has a quote.
C16_DriftSelfHeal ==
    [][(/\ ran.op \in {"hand_rename", "hand_move"}
        /\ ran'.op = "update_loop")
       => /\ ran'.outcome = "done"
          /\ ran.ops[1].id \in ChannelIds(container')
          /\ ChannelById(container', ran.ops[1].id).name
               = CreateChannelName(ran.quotes[QuotePlace(ran.quotes, ran.ticker)])
          /\ PositionOf(container', ran.ops[1].id) = DesiredPlace(ran.quotes, ran.ticker)
          /\ \A k \in DOMAIN ran'.ops : ran'.ops[k].id = ran.ops[1].id]_vars

-----------------------------------------------------------------------------
(* Properties of two handlers running at once, checked under SpecOverlap *)

Finished(t) == t.op # "none" /\ t.pc \in {"done", "returned", "raised"}

\* C20: when the scheduled pass and a command of the same guild (the forced
\* pass or /add_voice_ticker) have run interleaved at their awaits from a
\* category with no two channels of the same key, and both have ended, no
\* two channels of the category have the same key.
C20_NoDuplicatesUnderOverlap ==
    (Finished(tasks["loop"]) /\ Finished(tasks["command"])) => UniqueKeys(container)

-----------------------------------------------------------------------------
(* Properties of the cleanup, the empty list, the cooldown and close,       *)
(* checked under SpecCache                                                  *)

\* The entries of c that have not expired at time now
Unexpired(c, now) == {c[i] : i \in {j \in DOMAIN c : now - c[j].timestamp < CacheTtl}}

\* C25: the cleanup at the start of a fetch of a non-empty list leaves no
\* entry of age cache_ttl or more and removes no other entry, unless more
\* than max_cache_size unexpired entries remain: then it leaves
\* max_cache_size of them, and every entry removed has a timestamp no larger
\* than that of every entry kept.  The fetch goes on with the cache so left.
C25_EvictionSweep ==
    [][(call'.op = "fetch" /\ call'.key # "")
       => LET cleaned == CleanupCache(cache, clock)
              kept == Range(cleaned)
              live == Unexpired(cache, clock)
          IN  /\ kept \subseteq live
              /\ Cardinality(live) <= MaxCacheSize => kept = live
              /\ Cardinality(live) > MaxCacheSize
                 => /\ Len(cleaned) = MaxCacheSize
                    /\ \A gone_entry \in live \ kept, e \in kept :
                         gone_entry.timestamp <= e.timestamp
              /\ \A e \in Range(cache') : e \in kept \/ e.key = call'.key
              /\ \A e \in kept : e.key # call'.key => e \in Range(cache')]_vars

\* A fetch has removed an unexpired entry older than the one it kept.
C25_Witness ==
    /\ call.op = "fetch"
    /\ call.evicted > 0
    /\ call.kind = "none"
    /\ Len(cache) = MaxCacheSize
    /\ \E e \in Range(cache) : e.timestamp = clock /\ e.timestamp > StartClock

\* C26: fetch and fetch_no_cache of the empty list return the empty list
\* without a request to the upstream, and leave last_request_time and the
\* cache as they are: no entry is removed, none is stored.
C26_EmptyShortCircuits ==
    [][(call'.op \in {"fetch", "fetch_no_cache"} /\ call'.key = "")
       => /\ ~call'.raised
          /\ call'.value = <<>>
          /\ ~UpstreamCalled(call')
          /\ last_request_time' = last_request_time
          /\ requested' = requested
          /\ cache' = cache
          /\ clock' = clock]_vars

\* A fetch of the empty list has returned while the cache held an expired
\* entry and more entries than max_cache_size.
C26_Witness ==
    /\ call.op = "fetch"
    /\ call.key = ""
    /\ Len(cache) > MaxCacheSize
    /\ \E e \in Range(cache) : ~IsCacheValid(e, clock)

\* C28: a call the upstream answers with 429 does not return before the
\* cooldown of 60 s has passed; fetch then returns the entry the cache holds
\* for the key or the empty list, fetch_no_cache raises, and nothing is
\* stored in the cache.
C28_ThrottledCooldown ==
    [][call'.kind = "throttled"
       => /\ clock' - clock >= RateLimitCooldown
          /\ call'.op = "fetch_no_cache" => (call'.raised /\ cache' = cache)
          /\ call'.op = "fetch"
             => /\ ~call'.raised
                /\ cache' = CleanupCache(cache, clock)
                /\ call'.value = IF call'.key \in CacheKeys(cache')
                                 THEN CacheEntry(cache', call'.key).data
                                 ELSE <<>>]_vars

\* A fetch answered with 429 has returned after the cooldown.
C28_Witness ==
    /\ call.op = "fetch"
    /\ call.kind = "throttled"
    /\ clock >= StartClock + RateLimitCooldown

\* C29: close leaves the cache empty and the session closed or absent; a
\* close that follows a close changes nothing; a call that follows a close
\* and makes a request opens a session.
C29_CloseIdempotent ==
    [][/\ call'.op = "close"
          => /\ cache' = <<>>
             /\ session' \in {"closed", "none"}
             /\ call.op = "close"
                => /\ cache' = cache
                   /\ session' = session
                   /\ last_request_time' = last_request_time
       /\ (call.op = "close" /\ call'.op \in {"fetch", "fetch_no_cache"}
           /\ UpstreamCalled(call'))
          => session' = "open"]_vars

\* A close has closed the session a request had opened.
C29_Witness ==
    /\ call.op = "close"
    /\ session = "closed"
    /\ requested
    /\ cache = <<>>

-----------------------------------------------------------------------------
(* Properties of the cache key, checked under SpecKey *)

\* The lists name the same set of symbols, whatever the order and the case.
SameSymbols(a, b) == Range(UpperAll(a)) = Range(UpperAll(b))

\* C27: when the cache holds, after the cleanup, an unexpired entry stored
\* for a list of symbols, a fetch for a list that names the same set of
\* symbols in another order or case returns without a request to the
\* upstream.
C27_CanonicalKey ==
    [][\A a, b \in KeyLists :
         (/\ SameSymbols(a, b)
          /\ call'.op = "fetch"
          /\ call'.key = GenerateCacheKey(b)
          /\ GenerateCacheKey(a) \in CacheKeys(CleanupCache(cache, clock))
          /\ IsCacheValid(CacheEntry(cache, GenerateCacheKey(a)), clock))
         => ~UpstreamCalled(call')]_vars

-----------------------------------------------------------------------------
(* Properties of the update loop, checked under SpecLoop *)

\* C21: the loop awaits one pass at a time: while it awaits the pass of a
\* guild no other pass it started is running, and while it sleeps in
\* boundary_timer no pass it started is running.
C21_NoReentrancy ==
    /\ timer.pc = "pass" => ticks.running = {timer.guild}
    /\ timer.pc \in {"sleep", "backoff"} => ticks.running = {}

\* The loop awaits the pass of the last guild in its second tick.
C21_Witness ==
    /\ timer.pc = "pass"
    /\ timer.guild = NumGuilds
    /\ Len(ticks.invoked) = 2
    /\ ticks.running = {NumGuilds}

\* C22: when a sleep of boundary_timer ends and the client is closed, the
\* callback is not invoked and boundary_timer sleeps 180 s more before it
\* checks again; when the client is open, the callback is invoked at that
\* time.
C22_DisconnectedBackoff ==
    [][(timer.pc \in {"sleep", "backoff"} /\ timer' # timer)
       => /\ clock' = timer.wake
          /\ IF client_closed
             THEN /\ timer'.pc = "backoff"
                  /\ timer'.wake = clock' + Backoff
                  /\ ticks'.invoked = ticks.invoked
             ELSE /\ timer'.pc = "pass"
                  /\ ticks'.invoked = Append(ticks.invoked, clock')]_vars

\* The callback of the first tick was invoked after two sleeps of 180 s.
C22_Witness ==
    /\ timer.pc = "pass"
    /\ ticks.rechecks = 2
    /\ ticks.invoked = <<ticks.started + NextBoundary(timer.cadence, ticks.started)
                         + 2 * Backoff>>

\* C23: the delay boundary_timer computes at time now for a cadence is more
\* than 0 and at most the cadence, now plus the delay is a multiple of the
\* cadence, and the delay is the whole cadence when now is a multiple of it.
C23_BoundaryAlignment ==
    timer.pc = "sleep"
    => /\ 0 < timer.next_boundary
       /\ timer.next_boundary <= timer.cadence
       /\ (timer.now + timer.next_boundary) % timer.cadence = 0
       /\ timer.now % timer.cadence = 0 => timer.next_boundary = timer.cadence

\* boundary_timer was called on a boundary, after a callback.
C23_Witness ==
    /\ timer.pc = "sleep"
    /\ timer.cadence > 1
    /\ timer.now % timer.cadence = 0
    /\ timer.now > ticks.started
    /\ ticks.invoked # <<>>

\* C24: while the client has not closed, whenever the loop calls
\* boundary_timer the callback has been invoked exactly once at every
\* multiple of the cadence that has passed since the loop started.
C24_OncePerBoundary ==
    (timer.pc = "sleep" /\ ~ticks.closed_seen)
    => \A b \in (ticks.started + 1)..timer.now :
         b % timer.cadence = 0
         => Cardinality({i \in DOMAIN ticks.invoked : ticks.invoked[i] = b}) = 1

-----------------------------------------------------------------------------
(* Properties of format_price, checked under SpecFormat *)

\* The decimals the bands give a price
BandDecimals(price) ==
    CASE price < PriceUnit \div 100 -> 6
      [] PriceUnit \div 100 <= price /\ price < PriceUnit -> 4
      [] PriceUnit <= price /\ price < 1000 * PriceUnit -> 2
      [] price >= 1000 * PriceUnit -> 0

\* C30: format_price gives "$" and the price with 6 decimals below 0.01, 4
\* from 0.01 and below 1, 2 from 1 and below 1000, and none from 1000 on; a
\* call answered by the lru cache gives what the first call with that price
\* gave, and _format_price gives the same text for the same price.
C30_FormatBands ==
    /\ formatted # NoFormat
       => /\ formatted.out = "$" \o FixedPoint(formatted.price, BandDecimals(formatted.price))
          /\ formatted.voice = formatted.out
    /\ \A i \in DOMAIN lru :
         lru[i].out = "$" \o FixedPoint(lru[i].price, BandDecimals(lru[i].price))

\* format_price(1) was answered by the lru cache, after a call with another
\* price.
C30_Witness ==
    /\ formatted.price = PriceUnit
    /\ formatted.hit
    /\ formatted.out = "$1.00"
    /\ Len(lru) = 2

-----------------------------------------------------------------------------
(* Further properties of PriceQuoteCache, checked under SpecCache *)

\* The step is a fetch answered from a valid entry of the cache.
CacheHit(c) == c.op = "fetch" /\ c.kind = "none" /\ c.key # ""

\* C32: a fetch answered from a valid entry takes no time, leaves
\* last_request_time as it was and makes no request; the entry keeps its
\* timestamp and its quotes, which are what the fetch returns, and the hit
\* comes before the entry's timestamp plus cache_ttl.
C32_HitChangesNothing ==
    [][CacheHit(call')
       => /\ last_request_time' = last_request_time
          /\ requested' = requested
          /\ session' = session
          /\ clock' = clock
          /\ call'.key \in CacheKeys(cache) \cap CacheKeys(cache')
          /\ CacheEntry(cache', call'.key) = CacheEntry(cache, call'.key)
          /\ call'.value = CacheEntry(cache, call'.key).data
          /\ clock < CacheEntry(cache, call'.key).timestamp + CacheTtl]_vars

\* A fetch was answered from an entry stored at an earlier time.
C32_Witness ==
    /\ CacheHit(call)
    /\ call.value # <<>>
    /\ call.key \in CacheKeys(cache)
    /\ CacheEntry(cache, call.key).timestamp < clock
    /\ CacheEntry(cache, call.key).data = call.value

\* C33: last_request_time never decreases; a call that makes a request sets
\* it to the time the request is issued, which is the time of the call when
\* the limiter did not sleep and a later time when it did, whatever the
\* upstream answers: the call returns at that time, or 60 s later after a
\* 429.
C33_LimiterRecordsIssueTime ==
    [][/\ last_request_time' >= last_request_time
       /\ UpstreamCalled(call')
          => /\ ~call'.waited => last_request_time' = clock
             /\ call'.waited => last_request_time' > clock
             /\ call'.kind # "throttled" => last_request_time' = clock'
             /\ call'.kind = "throttled"
                => last_request_time' + RateLimitCooldown = clock']_vars

\* A request the limiter did not delay failed, after an earlier request: the
\* time of the call is recorded.
C33_Witness ==
    /\ UpstreamFailed(call)
    /\ call.kind # "throttled"
    /\ ~call.waited
    /\ last_request_time = clock
    /\ clock > StartClock

-----------------------------------------------------------------------------
(* Further properties of VoiceChannelUpdater, checked under SpecRun *)

\* C34: a full pass or an add whose fetch returned the empty list issues no
\* create, rename, reposition or delete and leaves the category as it was.
C34_EmptyQuotesNoEdits ==
    [][(ran'.op \in {"update_loop", "force_update_tickers", "add_voice_ticker"}
        /\ ran'.quotes = <<>>)
       => /\ ran'.ops = <<>>
          /\ container' = container]_vars

\* A scheduled pass over a category that holds the channel of a tracked
\* ticker has returned, its fetch having returned the empty list.
C34_Witness ==
    /\ ran.op = "update_loop"
    /\ ran.quotes = <<>>
    /\ ran.outcome = "returned"
    /\ voice_tickers # <<>>
    /\ \E i \in DOMAIN container : KeyOf(container[i].name) \in Range(voice_tickers)

-----------------------------------------------------------------------------
(* Properties of _rate_limit under interleaving, checked under SpecLimiter *)

\* C31: the requests issued through one instance by tasks that interleave at
\* the sleep of _rate_limit are issued at least min_request_interval apart.
C31_SpacingUnderInterleaving ==
    \A i \in 1..(Len(issue_times) - 1) :
        issue_times[i + 1] - issue_times[i] >= MinRequestInterval

-----------------------------------------------------------------------------
(* Properties of the handlers that construct a PriceQuoteCache, checked     *)
(* under SpecQuoter                                                         *)

\* C35: a handler starts with a PriceQuoteCache that holds no entry, no
\* session and no time of a last request; however it leaves the try block it
\* leaves the cache empty and no session open; and its first fetch makes a
\* request to the upstream that the limiter does not delay.
C35_CacheLivesOnePass ==
    [][/\ (guild_quoter.pc = "none" /\ guild_quoter'.pc = "try")
          => (cache' = <<>> /\ last_request_time' = 0 /\ session' = "none")
       /\ (guild_quoter.pc = "try" /\ guild_quoter'.pc = "none")
          => (cache' = <<>> /\ session' # "open")
       /\ (guild_quoter.pc = "try" /\ guild_quoter.fetches = 0 /\ guild_quoter'.fetches = 1)
          => (UpstreamCalled(call') /\ ~call'.waited /\ last_request_time' = clock)]_vars

\* A second handler has made its first fetch within the second in which the
\* handler before it, which left by an exception, made a request.
C35_Witness ==
    /\ guild_quoter.exit = "raise"
    /\ guild_quoter.pc = "try"
    /\ guild_quoter.fetches = 1
    /\ call.op = "fetch"
    /\ UpstreamCalled(call)
    /\ ~call.waited
    /\ session = "open"

====
